---------------------------- MODULE Spec2Model ----------------------------
(***************************************************************************)
(* redis-whistle: the command handlers, the keyspace engine (Database) and *)
(* the server registry, as a state machine.                                *)
(*                                                                         *)
(* Every Go string is a TLA+ string.  A Go map is a function whose DOMAIN  *)
(* is the set of keys the map holds.  time.Time is an integer number of    *)
(* milliseconds; `now` is the wall clock every time.Now() reads.           *)
(*                                                                         *)
(* A connection goroutine runs one command at a time.  Its steps are the   *)
(* critical sections of the engine (one step per Lock/RLock ... Unlock     *)
(* region, and one per unlocked access of a map); the code between two     *)
(* critical sections touches only locals and is folded into the step that  *)
(* precedes it (Return).                                                   *)
(***************************************************************************)
EXTENDS Integers, Sequences, FiniteSets, TLC

\* ---------------------------------------------------------------- bounds
\* the clock advances in steps of TickMs up to MaxTime (milliseconds)
TickMs == 500
MaxTime == 1000
\* commands started, over all connections, in one behaviour of Spec
MaxOps == 3
\* commands started by the single connection of SeqSpec
MaxSeqOps == 3
\* commands started by the single connection of ExpSpec, whose clock
\* advances up to MaxExpTime (milliseconds)
MaxExpOps == 4
\* commands started by the single connection of KeysSpec
MaxKeysOps == 4
MaxSelOps == 6
MaxSel2Ops == 4
MaxAdminOps == 4
MaxArityOps == 3
MaxWireOps == 3
MaxSnapOps == 4
MaxRestoreOps == 4
MaxLiveOps == 3
MaxLazyOps == 3
MaxStaleOps == 3
MaxSelLiveOps == 3
MaxExpTime == 2500

\* ------------------------------------------------------ program constants
NumDatabases == 16

DBIds == 0 .. (NumDatabases - 1)

\* connections (one goroutine each)
Clients == {"c1", "c2"}

\* ------------------------------------------------------------ Go strings
Digits == "0123456789"
Lower == "abcdefghijklmnopqrstuvwxyz"
Upper == "ABCDEFGHIJKLMNOPQRSTUVWXYZ"

CharAt(s, i) == SubSeq(s, i, i)

IsDigit(ch) == \E i \in 1 .. 10 : CharAt(Digits, i) = ch

DigitVal(ch) == (CHOOSE i \in 1 .. 10 : CharAt(Digits, i) = ch) - 1

\* unicode.ToUpper on one ASCII character
UpperChar(ch) ==
    IF \E i \in 1 .. 26 : CharAt(Lower, i) = ch
    THEN CharAt(Upper, CHOOSE i \in 1 .. 26 : CharAt(Lower, i) = ch)
    ELSE ch

RECURSIVE ToUpper(_)
ToUpper(s) == IF s = "" THEN "" ELSE UpperChar(Head(s)) \o ToUpper(Tail(s))

RECURSIVE AllDigits(_)
AllDigits(s) == IF s = "" THEN TRUE ELSE IsDigit(Head(s)) /\ AllDigits(Tail(s))

RECURSIVE DigitsVal(_, _)
DigitsVal(s, acc) ==
    IF s = "" THEN acc ELSE DigitsVal(Tail(s), acc * 10 + DigitVal(Head(s)))

\* strconv.Atoi: an optional sign, then one or more decimal digits.
\* AtoiErr(s) is err != nil, AtoiVal(s) the integer when err == nil.
AtoiBody(s) == IF s # "" /\ Head(s) \in {"+", "-"} THEN Tail(s) ELSE s

AtoiErr(s) == AtoiBody(s) = "" \/ ~AllDigits(AtoiBody(s))

AtoiVal(s) ==
    IF Head(s) = "-" THEN 0 - DigitsVal(AtoiBody(s), 0) ELSE DigitsVal(AtoiBody(s), 0)

\* strconv.Itoa
RECURSIVE Itoa(_)
Itoa(n) ==
    IF n < 0 THEN "-" \o Itoa(0 - n)
    ELSE IF n < 10 THEN CharAt(Digits, n + 1)
    ELSE Itoa(n \div 10) \o CharAt(Digits, (n % 10) + 1)

\* ------------------------------------------------------- reply encoders
returnError(s) == "-ERR " \o s \o "\r\n"

returnSimpleString(s) == "+" \o s \o "\r\n"

returnNullBulkString == "$-1\r\n"

returnBulkString(s) == "$" \o Itoa(Len(s)) \o "\r\n" \o s \o "\r\n"

returnInteger(i) == ":" \o Itoa(i) \o "\r\n"

returnWrongNumberOfArgumentsError(command) ==
    returnError("wrong number of arguments for '" \o command \o "' command")

\* returnArray: "*" + len + CRLF, then every element as a bulk string, the
\* empty string as the null bulk string
RECURSIVE returnArrayElements(_)
returnArrayElements(a) ==
    IF a = << >> THEN ""
    ELSE (IF Head(a) = "" THEN returnNullBulkString ELSE returnBulkString(Head(a)))
             \o returnArrayElements(Tail(a))

returnArray(a) == "*" \o Itoa(Len(a)) \o "\r\n" \o returnArrayElements(a)

\* filepath.Match(pattern, name) for patterns made of literal characters,
\* '*' (any run of characters but '/') and '?' (any one character but '/')
RECURSIVE Match(_, _)
Match(pattern, name) ==
    IF pattern = "" THEN name = ""
    ELSE IF Head(pattern) = "*"
    THEN \/ Match(Tail(pattern), name)
         \/ name # "" /\ Head(name) # "/" /\ Match(pattern, Tail(name))
    ELSE IF Head(pattern) = "?"
    THEN name # "" /\ Head(name) # "/" /\ Match(Tail(pattern), Tail(name))
    ELSE name # "" /\ Head(name) = Head(pattern) /\ Match(Tail(pattern), Tail(name))

\* The orders in which a range over a Go map can yield the keys of the set S
Orders(S) ==
    {f \in [1 .. Cardinality(S) -> S] : \A i, j \in 1 .. Cardinality(S) : f[i] = f[j] => i = j}

checkNumberOfArguments(args, expectedNumberOfArguments) ==
    Len(args) >= expectedNumberOfArguments

\* -------------------------------------------------------- RESP decoder
\* A Value: typ is the type byte, bytes the payload of a simple or bulk
\* string, array the elements of an array.
NoValue == [typ |-> "", bytes |-> "", array |-> << >>]

SimpleString == "+"

BulkString == "$"

Array == "*"

\* The outcome of a decoding function on the bytes s of a stream: st is "ok"
\* (err == nil), "err" (err != nil) or "panic" (a run-time panic); value is
\* the Value returned; rest is what is left of the stream.
Decoded(value, rest) == [st |-> "ok", value |-> value, rest |-> rest]

DecodeError(rest) == [st |-> "err", value |-> NoValue, rest |-> rest]

DecodePanic(rest) == [st |-> "panic", value |-> NoValue, rest |-> rest]

\* the positions of s that end a line: a '\n' that follows a '\r'
LineEnds(s) == {i \in 2 .. Len(s) : CharAt(s, i) = "\n" /\ CharAt(s, i - 1) = "\r"}

Least(S) == CHOOSE i \in S : \A j \in S : i <= j

\* readUntilCRLF: ReadBytes('\n') until what was read ends in "\r\n"; the
\* two bytes are cut off; an error if the stream ends first.  On "ok" the
\* line is in value.bytes.
readUntilCRLF(s) ==
    IF LineEnds(s) = {} THEN DecodeError("")
    ELSE LET i == Least(LineEnds(s))
         IN  Decoded([NoValue EXCEPT !.bytes = SubSeq(s, 1, i - 2)], SubSeq(s, i + 1, Len(s)))

decodeSimpleString(s) ==
    LET line == readUntilCRLF(s)
    IN  IF line.st # "ok" THEN line
        ELSE Decoded([NoValue EXCEPT !.typ = SimpleString, !.bytes = line.value.bytes],
                     line.rest)

\* decodeBulkString: count is not checked for its sign, so make([]byte,
\* count+2) panics for count < -2, and readBytes[:count] panics for count < 0
\* once io.ReadFull has filled the count+2 bytes; io.ReadFull fails when
\* fewer than count+2 bytes are left.  The two bytes after the payload are
\* read but not compared with "\r\n".
decodeBulkString(s) ==
    LET line == readUntilCRLF(s)
        count == AtoiVal(line.value.bytes)
    IN  IF line.st # "ok" THEN line
        ELSE IF AtoiErr(line.value.bytes) THEN DecodeError(line.rest)
        ELSE IF count + 2 < 0 THEN DecodePanic(line.rest)
        ELSE IF Len(line.rest) < count + 2 THEN DecodeError("")
        ELSE IF count < 0 THEN DecodePanic(SubSeq(line.rest, count + 3, Len(line.rest)))
        ELSE Decoded([NoValue EXCEPT !.typ = BulkString,
                                     !.bytes = SubSeq(line.rest, 1, count)],
                     SubSeq(line.rest, count + 3, Len(line.rest)))

RECURSIVE DecodeRESP(_)

\* decodeArray's loop: for i := 1; i <= count; i++ { value, err := DecodeRESP }
RECURSIVE decodeArrayElements(_, _, _)
decodeArrayElements(s, count, array) ==
    IF count <= 0
    THEN Decoded([NoValue EXCEPT !.typ = Array, !.array = array], s)
    ELSE LET d == DecodeRESP(s)
         IN  IF d.st # "ok" THEN d
             ELSE decodeArrayElements(d.rest, count - 1, Append(array, d.value))

decodeArray(s) ==
    LET line == readUntilCRLF(s)
    IN  IF line.st # "ok" THEN line
        ELSE IF AtoiErr(line.value.bytes) THEN DecodeError(line.rest)
        ELSE decodeArrayElements(line.rest, AtoiVal(line.value.bytes), << >>)

\* DecodeRESP: ReadByte, then the decoder of the type byte; ':' and '-' have
\* none
DecodeRESP(s) ==
    IF s = "" THEN DecodeError("")
    ELSE CASE Head(s) = "+" -> decodeSimpleString(Tail(s))
           [] Head(s) = "$" -> decodeBulkString(Tail(s))
           [] Head(s) = "*" -> decodeArray(Tail(s))
           [] OTHER -> DecodeError(Tail(s))

\* Value.String
ValueString(v) == IF v.typ = BulkString \/ v.typ = SimpleString THEN v.bytes ELSE ""

\* Value.Array
ValueArray(v) == IF v.typ = Array THEN v.array ELSE << >>

\* Value.StringArray
StringArray(v) == [i \in 1 .. Len(ValueArray(v)) |-> ValueString(ValueArray(v)[i])]

\* The reply encoder of each kind of Value: a status, an integer (typ ":",
\* its numeral in bytes), a bulk string, an array of bulk strings.
Encode(v) ==
    CASE v.typ = SimpleString -> returnSimpleString(v.bytes)
      [] v.typ = ":" -> returnInteger(AtoiVal(v.bytes))
      [] v.typ = BulkString -> returnBulkString(v.bytes)
      [] v.typ = Array -> returnArray(StringArray(v))

\* ------------------------------------------------------------- Go maps
MapHas(m, k) == k \in DOMAIN m

MapSet(m, k, v) == [x \in (DOMAIN m) \cup {k} |-> IF x = k THEN v ELSE m[x]]

MapDelete(m, k) == [x \in (DOMAIN m) \ {k} |-> m[x]]

EmptyMap == << >>

\* ---------------------------------------------------------------- state
VARIABLES
    StringKeys,   \* StringKeys[d]: Database.StringKeys of databases[d]
    ExpireKeys,   \* ExpireKeys[d]: Database.ExpireKeys of databases[d]
    selectedDB,   \* RedisServer.selectedDB
    sweepers,     \* sweepers[d]: running startExpireChecker goroutines of databases[d]
    lastSelect,   \* the index of the SelectDB call that returned last (0 before the first)
    files,        \* files[f]: what the file named f holds on disk
    wire,         \* wire[c]: the bytes connection c sent last and what DecodeRESP made of them
    now,          \* the clock read by time.Now(), in milliseconds
    conn,         \* conn[c]: the goroutine of connection c (handleRequest)
    pre,          \* pre[c]: the databases, the selection and the clock when c's command was dispatched
    nops          \* nops[c]: commands connection c has sent so far

vars ==
    <<StringKeys, ExpireKeys, selectedDB, sweepers, lastSelect, files, wire, now, conn, pre,
      nops>>

\* A goroutine between two commands.  pc is the next critical section; stack
\* holds the return addresses of the calls in progress; the other fields are
\* the arguments and locals of the functions on the stack.  gheld is not in
\* the code: it records whether the value Get read had no expiry, or one that
\* had not passed, at the instant Get read it.
IdleConn ==
    [pc |-> "idle", name |-> "", args |-> << >>, db |-> 0, stack |-> << >>,
     key |-> "", value |-> "", ms |-> 0, delta |-> 0, keys |-> << >>,
     i |-> 0, n |-> 0, ival |-> 0, gstorage |-> "", storage |-> "",
     expire |-> 0, tnow |-> 0, reply |-> "", gheld |-> FALSE]

\* Nothing received yet.
NoWire == [sent |-> NoValue, stream |-> "", st |-> "", value |-> NoValue, rest |-> ""]

\* The file does not exist (os.Open fails).
NoFile == [kind |-> "none", S |-> EmptyMap, E |-> EmptyMap]

\* "database_" + strconv.Itoa(db.id) + "_dump" + ".db"
DumpName(id) == "database_" \o Itoa(id) \o "_dump" \o ".db"

\* The files the commands can name: the dump file of each engine, a file that
\* holds no gob stream, a file whose gob stream is damaged in the middle, and
\* a name under which there is no file.
FileNames == {DumpName(d) : d \in DBIds} \cup {"bad.db", "cut.db", "none.db"}

\* pre is not in the code: the engine selected, its maps and the clock when
\* the running command was dispatched; last is the dispatch record, name and
\* arguments of the command whose reply was written just before, when the
\* next request was already waiting in the connection's buffer.
NoPre ==
    [S |-> EmptyMap, E |-> EmptyMap, t |-> 0, sel |-> 0,
     SS |-> << >>, EE |-> << >>, sw |-> << >>, last |-> << >>]

\* The handler has built its reply; the goroutine is about to conn.Write it.
Finish(r, reply) ==
    [IdleConn EXCEPT !.pc = "done", !.name = r.name, !.args = r.args,
                     !.db = r.db, !.tnow = r.tnow, !.reply = reply]

\* A Go run-time panic in the goroutine (an index out of range).
Panic(r) == [IdleConn EXCEPT !.pc = "panic", !.name = r.name, !.args = r.args]

Push(r, L) == [r EXCEPT !.stack = <<L>> \o @]

RECURSIVE Return(_, _)

\* ------------------------------------------------ Database: entry points
\* Each takes the goroutine r, the call's arguments and the return address L
\* and yields the goroutine at the call's first critical section.
Get(r, key, L) == [Push(r, L) EXCEPT !.key = key, !.pc = "Get"]

checkAndRemoveExpiredKey(r, key, L) == [Push(r, L) EXCEPT !.key = key, !.pc = "Chk"]

Set(r, key, value, L) == [Push(r, L) EXCEPT !.key = key, !.value = value, !.pc = "Set"]

Setpx(r, key, milliseconds, value, L) ==
    Set([Push(r, L) EXCEPT !.ms = milliseconds], key, value, "Setpx")

\* Del's loop head: for _, key := range keys
DelLoop(r) ==
    IF r.i > Len(r.keys) THEN Return(r, r.n) ELSE Get(r, r.keys[r.i], "Del")

Del(r, keys, L) == DelLoop([Push(r, L) EXCEPT !.keys = keys, !.i = 1, !.n = 0])

GetSet(r, key, value, L) == Get([Push(r, L) EXCEPT !.value = value], key, "GetSet.get")

GetDel(r, key, L) == Get(Push(r, L), key, "GetDel.get")

\* MSetNX's second loop: db.Set(args[i], args[i+1])
MSetNXInstall(r) ==
    IF r.i > Len(r.keys) THEN Return(r, TRUE)
    ELSE Set(r, r.keys[r.i], r.keys[r.i + 1], "MSetNX.set")

\* MSetNX's first loop: db.Get(args[i]) != "" returns false
MSetNXCheck(r) ==
    IF r.i > Len(r.keys) THEN MSetNXInstall([r EXCEPT !.i = 1])
    ELSE Get(r, r.keys[r.i], "MSetNX.get")

MSetNX(r, args, L) == MSetNXCheck([Push(r, L) EXCEPT !.keys = args, !.i = 1])

\* Incr, IncrBy, Decr and DecrBy are one body up to the signed amount added
IncrBy(r, key, increment, L) == Get([Push(r, L) EXCEPT !.delta = increment], key, "IncrBy.get")

Incr(r, key, L) == IncrBy(r, key, 1, L)

Decr(r, key, L) == IncrBy(r, key, -1, L)

DecrBy(r, key, decrement, L) == IncrBy(r, key, 0 - decrement, L)

GetExpire(r, key, L) == [Push(r, L) EXCEPT !.key = key, !.pc = "GetExpire"]

\* the time.Time GetExpire returns: the zero Time, or an instant of the clock
ZeroTime == [zero |-> TRUE, at |-> 0]

TimeAt(t) == [zero |-> FALSE, at |-> t]

Expire(r, key, seconds, L) ==
    Get([Push(r, L) EXCEPT !.ms = seconds * 1000], key, "Expire.get")

TTL(r, key, L) == Get(Push(r, L), key, "TTL.get")

Persist(r, key, L) == Get(Push(r, L), key, "Persist.get")

Keys(r, pattern, L) == [Push(r, L) EXCEPT !.value = pattern, !.pc = "Keys"]

\* MSet's loop: db.Set(args[i], args[i+1])
MSetLoop(r) ==
    IF r.i > Len(r.keys) THEN Return(r, TRUE)
    ELSE Set(r, r.keys[r.i], r.keys[r.i + 1], "MSet.set")

MSet(r, args, L) == MSetLoop([Push(r, L) EXCEPT !.keys = args, !.i = 1])

\* Save of the engine r.db
Save(r, L) == [Push(r, L) EXCEPT !.pc = "Save"]

\* Load of the engine r.db from the file fileName
Load(r, fileName, L) == [Push(r, L) EXCEPT !.value = fileName, !.pc = "Load"]

\* gob's Decoder decodes a map into the map the destination already holds
\* (it makes a new one only if that is nil) and sets each decoded entry in
\* it: what the destination m held under other keys stays.
GobDecodeInto(m, image) ==
    [k \in (DOMAIN m) \cup (DOMAIN image) |-> IF k \in DOMAIN image THEN image[k] ELSE m[k]]

\* Flush of databases[d]
Flush(r, d, L) == [Push(r, L) EXCEPT !.i = d, !.pc = "Flush"]

\* flushallCommand's loop: for _, database := range redis.databases
FlushAllLoop(r) ==
    IF r.n >= NumDatabases THEN Return(r, TRUE)
    ELSE Flush(r, r.n, "flushallCommand.loop")

\* SelectDB(index): server.databases[server.selectedDB].Close() comes first,
\* on the engine r.db that was selected when the handler ran
SelectDB(r, index, L) == [Push(r, L) EXCEPT !.i = index, !.pc = "SelectDB.stop"]

\* ------------------------------- Database: the code after a call returns
\* Get, after checkAndRemoveExpiredKey(key) returned expired
Get_return(r, expired) == Return(r, IF expired THEN "" ELSE r.gstorage)

\* Del, after Get(key) returned value
Del_return(r, value) ==
    IF value # "" THEN [r EXCEPT !.pc = "Del"] ELSE DelLoop([r EXCEPT !.i = @ + 1])

\* GetSet, after Get(key) returned storage
GetSet_afterGet(r, storage) ==
    IF storage = "" THEN [r EXCEPT !.pc = "GetSet"]
    ELSE checkAndRemoveExpiredKey([r EXCEPT !.storage = storage], r.key, "GetSet.chk")

\* GetSet, after checkAndRemoveExpiredKey(key) returned expired
GetSet_afterCheck(r, expired) ==
    Set(r, r.key, r.value, IF expired THEN "GetSet.set1" ELSE "GetSet.set2")

\* GetDel, after Get(key) returned storage
GetDel_afterGet(r, storage) ==
    IF storage = "" THEN Return(r, "")
    ELSE Del([r EXCEPT !.storage = storage], <<r.key>>, "GetDel.del")

\* MSetNX, after Get(args[i]) returned storage
MSetNX_afterGet(r, storage) ==
    IF storage # "" THEN Return(r, FALSE) ELSE MSetNXCheck([r EXCEPT !.i = @ + 2])

\* Incr/IncrBy/Decr/DecrBy, after Get(key) returned storage
IncrBy_afterGet(r, storage) ==
    IF storage = ""
    THEN Set([r EXCEPT !.ival = r.delta], r.key, Itoa(r.delta), "IncrBy.set")
    ELSE checkAndRemoveExpiredKey([r EXCEPT !.storage = storage], r.key, "IncrBy.chk")

\* Incr/IncrBy/Decr/DecrBy, after checkAndRemoveExpiredKey(key) returned expired
IncrBy_afterCheck(r, expired) ==
    IF expired THEN Return(r, 0)
    ELSE IF AtoiErr(r.storage) THEN Return(r, 0)
    ELSE Set([r EXCEPT !.ival = AtoiVal(r.storage) + r.delta], r.key,
             Itoa(AtoiVal(r.storage) + r.delta), "IncrBy.set")

\* Expire, after Get(key) returned storage
Expire_afterGet(r, storage) ==
    IF storage = "" THEN Return(r, FALSE) ELSE [r EXCEPT !.pc = "Expire"]

\* TTL, after Get(key) returned storage
TTL_afterGet(r, storage) ==
    IF storage = "" THEN Return(r, -2) ELSE GetExpire(r, r.key, "TTL.exp")

\* TTL, after GetExpire(key) returned expire
TTL_afterGetExpire(r, expire) ==
    IF expire.zero THEN Return(r, -1) ELSE [r EXCEPT !.expire = expire.at, !.pc = "TTL"]

\* int(d.Seconds()) of a duration of ms milliseconds: truncated towards zero
Seconds(ms) == IF ms >= 0 THEN ms \div 1000 ELSE 0 - ((0 - ms) \div 1000)

\* Persist, after Get(key) returned storage
Persist_afterGet(r, storage) ==
    IF storage = "" THEN Return(r, FALSE) ELSE GetExpire(r, r.key, "Persist.exp")

\* Persist, after GetExpire(key) returned expire
Persist_afterGetExpire(r, expire) ==
    IF expire.zero THEN Return(r, FALSE) ELSE [r EXCEPT !.pc = "Persist"]

\* ------------------------------------------ handlers: building the reply
BulkOrNull(value) == IF value = "" THEN returnNullBulkString ELSE returnBulkString(value)

\* `v` returned to the frame whose return address is on top of r's stack
Return(r, v) ==
    LET L == Head(r.stack)
        r0 == [r EXCEPT !.stack = Tail(@)]
    IN  CASE L = "Get.chk" -> Get_return(r0, v)
          [] L = "Del" -> Del_return(r0, v)
          [] L = "Setpx" -> [r0 EXCEPT !.pc = "Setpx"]
          [] L = "GetSet.get" -> GetSet_afterGet(r0, v)
          [] L = "GetSet.chk" -> GetSet_afterCheck(r0, v)
          [] L = "GetSet.set1" -> Return(r0, "")
          [] L = "GetSet.set2" -> Return(r0, r0.storage)
          [] L = "GetDel.get" -> GetDel_afterGet(r0, v)
          [] L = "GetDel.del" -> Return(r0, r0.storage)
          [] L = "MSetNX.get" -> MSetNX_afterGet(r0, v)
          [] L = "MSetNX.set" -> MSetNXInstall([r0 EXCEPT !.i = @ + 2])
          [] L = "IncrBy.get" -> IncrBy_afterGet(r0, v)
          [] L = "IncrBy.chk" -> IncrBy_afterCheck(r0, v)
          [] L = "IncrBy.set" -> Return(r0, r0.ival)
          [] L = "MSet.set" -> MSetLoop([r0 EXCEPT !.i = @ + 2])
          [] L = "flushallCommand.loop" -> FlushAllLoop([r0 EXCEPT !.n = @ + 1])
          [] L = "Expire.get" -> Expire_afterGet(r0, v)
          [] L = "TTL.get" -> TTL_afterGet(r0, v)
          [] L = "TTL.exp" -> TTL_afterGetExpire(r0, v)
          [] L = "Persist.get" -> Persist_afterGet(r0, v)
          [] L = "Persist.exp" -> Persist_afterGetExpire(r0, v)
          [] L = "setCommand" -> Finish(r0, returnSimpleString("OK"))
          [] L = "setexCommand" -> Finish(r0, returnSimpleString("OK"))
          [] L = "getCommand" -> Finish(r0, BulkOrNull(v))
          [] L = "getsetCommand" -> Finish(r0, BulkOrNull(v))
          [] L = "getdelCommand" -> Finish(r0, BulkOrNull(v))
          [] L = "msetnxCommand" -> Finish(r0, returnInteger(IF v THEN 1 ELSE 0))
          [] L = "delCommand" -> Finish(r0, returnInteger(v))
          [] L = "incrCommand" -> Finish(r0, returnInteger(v))
          [] L = "incrbyCommand" -> Finish(r0, returnInteger(v))
          [] L = "decrCommand" -> Finish(r0, returnInteger(v))
          [] L = "decrbyCommand" -> Finish(r0, returnInteger(v))
          [] L = "expireCommand" -> Finish(r0, returnInteger(IF v THEN 1 ELSE 0))
          [] L = "ttlCommand" -> Finish(r0, returnInteger(v))
          [] L = "persistCommand" -> Finish(r0, returnInteger(IF v THEN 1 ELSE 0))
          [] L = "keysCommand" -> Finish(r0, returnArray(v))
          [] L = "msetCommand" -> Finish(r0, returnSimpleString("OK"))
          [] L = "saveCommand" -> Finish(r0, returnSimpleString("OK"))
          [] L = "loadCommand" -> Finish(r0, returnSimpleString("OK"))
          [] L = "selectCommand" -> Finish(r0, returnSimpleString("OK"))
          [] L = "flushdbCommand" -> Finish(r0, returnSimpleString("OK"))
          [] L = "flushallCommand" -> Finish(r0, returnSimpleString("OK"))

\* ------------------------------------------------------------- handlers
\* Each takes the goroutine with r.args set (the request without its command
\* name) and r.db = redis.selectedDB, and yields it at the engine call's first
\* critical section, or finished when the handler replies without a call.
NotAnInteger == returnError("value is not an integer or out of range")

setCommand(r) ==
    IF ~checkNumberOfArguments(r.args, 2)
    THEN Finish(r, returnWrongNumberOfArgumentsError("SET"))
    ELSE IF Len(r.args) >= 3
    THEN CASE ToUpper(r.args[3]) = "PX" ->
                IF Len(r.args) < 4 THEN Panic(r)
                ELSE IF AtoiErr(r.args[4]) THEN Finish(r, NotAnInteger)
                ELSE Setpx(r, r.args[1], AtoiVal(r.args[4]), r.args[2], "setCommand")
           [] ToUpper(r.args[3]) = "EX" ->
                IF Len(r.args) < 4 THEN Panic(r)
                ELSE IF AtoiErr(r.args[4]) THEN Finish(r, NotAnInteger)
                ELSE Setpx(r, r.args[1], AtoiVal(r.args[4]) * 1000, r.args[2], "setCommand")
           [] OTHER -> Finish(r, returnError("unknown command '" \o r.args[3] \o "'"))
    ELSE Set(r, r.args[1], r.args[2], "setCommand")

setexCommand(r) ==
    IF ~checkNumberOfArguments(r.args, 3)
    THEN Finish(r, returnWrongNumberOfArgumentsError("SETEX"))
    ELSE IF AtoiErr(r.args[2]) THEN Finish(r, NotAnInteger)
    ELSE Setpx(r, r.args[1], AtoiVal(r.args[2]) * 1000, r.args[3], "setexCommand")

getCommand(r) ==
    IF ~checkNumberOfArguments(r.args, 1)
    THEN Finish(r, returnWrongNumberOfArgumentsError("GET"))
    ELSE Get(r, r.args[1], "getCommand")

getsetCommand(r) ==
    IF ~checkNumberOfArguments(r.args, 2)
    THEN Finish(r, returnWrongNumberOfArgumentsError("GETSET"))
    ELSE GetSet(r, r.args[1], r.args[2], "getsetCommand")

getdelCommand(r) ==
    IF ~checkNumberOfArguments(r.args, 1)
    THEN Finish(r, returnWrongNumberOfArgumentsError("GETDEL"))
    ELSE GetDel(r, r.args[1], "getdelCommand")

msetnxCommand(r) ==
    IF ~checkNumberOfArguments(r.args, 2)
    THEN Finish(r, returnWrongNumberOfArgumentsError("MSETNX"))
    ELSE IF Len(r.args) % 2 # 0
    THEN Finish(r, returnError("wrong number of arguments for 'MSETNX' command"))
    ELSE MSetNX(r, r.args, "msetnxCommand")

delCommand(r) ==
    IF ~checkNumberOfArguments(r.args, 1)
    THEN Finish(r, returnWrongNumberOfArgumentsError("DEL"))
    ELSE Del(r, r.args, "delCommand")

incrCommand(r) ==
    IF ~checkNumberOfArguments(r.args, 1)
    THEN Finish(r, returnWrongNumberOfArgumentsError("INCR"))
    ELSE Incr(r, r.args[1], "incrCommand")

incrbyCommand(r) ==
    IF ~checkNumberOfArguments(r.args, 2)
    THEN Finish(r, returnWrongNumberOfArgumentsError("INCRBY"))
    ELSE IF AtoiErr(r.args[2]) THEN Finish(r, NotAnInteger)
    ELSE IncrBy(r, r.args[1], AtoiVal(r.args[2]), "incrbyCommand")

decrCommand(r) ==
    IF ~checkNumberOfArguments(r.args, 1)
    THEN Finish(r, returnWrongNumberOfArgumentsError("DECR"))
    ELSE Decr(r, r.args[1], "decrCommand")

decrbyCommand(r) ==
    IF ~checkNumberOfArguments(r.args, 2)
    THEN Finish(r, returnWrongNumberOfArgumentsError("DECRBY"))
    ELSE IF AtoiErr(r.args[2]) THEN Finish(r, NotAnInteger)
    ELSE DecrBy(r, r.args[1], AtoiVal(r.args[2]), "decrbyCommand")

expireCommand(r) ==
    IF ~checkNumberOfArguments(r.args, 2)
    THEN Finish(r, returnWrongNumberOfArgumentsError("EXPIRE"))
    ELSE IF AtoiErr(r.args[2]) THEN Finish(r, NotAnInteger)
    ELSE Expire(r, r.args[1], AtoiVal(r.args[2]), "expireCommand")

ttlCommand(r) ==
    IF ~checkNumberOfArguments(r.args, 1)
    THEN Finish(r, returnWrongNumberOfArgumentsError("TTL"))
    ELSE TTL(r, r.args[1], "ttlCommand")

persistCommand(r) ==
    IF ~checkNumberOfArguments(r.args, 1)
    THEN Finish(r, returnWrongNumberOfArgumentsError("PERSIST"))
    ELSE Persist(r, r.args[1], "persistCommand")

pingCommand(r) ==
    IF Len(r.args) > 0 /\ r.args[1] # ""
    THEN Finish(r, returnBulkString(r.args[1]))
    ELSE Finish(r, returnSimpleString("PONG"))

\* echoCommand indexes args[0] without a check of len(args)
echoCommand(r) ==
    IF Len(r.args) < 1 THEN Panic(r) ELSE Finish(r, returnBulkString(r.args[1]))

msetCommand(r) ==
    IF ~checkNumberOfArguments(r.args, 2)
    THEN Finish(r, returnWrongNumberOfArgumentsError("MSET"))
    ELSE IF Len(r.args) % 2 # 0
    THEN Finish(r, returnError("wrong number of arguments for 'MSET' command"))
    ELSE MSet(r, r.args, "msetCommand")

\* A selectCommand that, unlike the code, ignores the error of strconv.Atoi
\* and so takes a non-integer for index 0.
selectCommand_ignoringAtoiError(r) ==
    IF Len(r.args) # 1
    THEN Finish(r, returnWrongNumberOfArgumentsError("SELECT"))
    ELSE IF AtoiErr(r.args[1]) THEN SelectDB(r, 0, "selectCommand")
    ELSE IF AtoiVal(r.args[1]) < 0 \/ AtoiVal(r.args[1]) >= 16
    THEN Finish(r, returnError("value is out of range or invalid DB index"))
    ELSE SelectDB(r, AtoiVal(r.args[1]), "selectCommand")

selectCommand(r) ==
    IF Len(r.args) # 1
    THEN Finish(r, returnWrongNumberOfArgumentsError("SELECT"))
    ELSE IF AtoiErr(r.args[1]) THEN Finish(r, returnError("value is not an integer"))
    ELSE IF AtoiVal(r.args[1]) < 0 \/ AtoiVal(r.args[1]) >= 16
    THEN Finish(r, returnError("value is out of range or invalid DB index"))
    ELSE SelectDB(r, AtoiVal(r.args[1]), "selectCommand")

\* saveCommand ignores its arguments
saveCommand(r) == Save(r, "saveCommand")

\* loadCommand asks for one argument at least, so its branch Load("") for no
\* argument is never taken
loadCommand(r) ==
    IF ~checkNumberOfArguments(r.args, 1)
    THEN Finish(r, returnWrongNumberOfArgumentsError("LOAD"))
    ELSE IF Len(r.args) > 0 THEN Load(r, r.args[1], "loadCommand")
    ELSE Load(r, "", "loadCommand")

flushdbCommand(r) == Flush(r, r.db, "flushdbCommand")

flushallCommand(r) == FlushAllLoop([Push(r, "flushallCommand") EXCEPT !.n = 0])

keysCommand(r) ==
    IF ~checkNumberOfArguments(r.args, 1)
    THEN Finish(r, returnWrongNumberOfArgumentsError("KEYS"))
    ELSE Keys(r, r.args[1], "keysCommand")

\* getCommandMap and the dispatch of handleRequest: request is the decoded
\* array of bulk strings, its first element the command name.
handleRequest(request, db) ==
    LET comingCommand == ToUpper(request[1])
        r == [IdleConn EXCEPT !.name = comingCommand, !.args = Tail(request), !.db = db]
    IN  CASE comingCommand = "PING" -> pingCommand(r)
          [] comingCommand = "SET" -> setCommand(r)
          [] comingCommand = "SETEX" -> setexCommand(r)
          [] comingCommand = "GET" -> getCommand(r)
          [] comingCommand = "GETSET" -> getsetCommand(r)
          [] comingCommand = "GETDEL" -> getdelCommand(r)
          [] comingCommand = "MSETNX" -> msetnxCommand(r)
          [] comingCommand = "DEL" -> delCommand(r)
          [] comingCommand = "INCR" -> incrCommand(r)
          [] comingCommand = "INCRBY" -> incrbyCommand(r)
          [] comingCommand = "DECR" -> decrCommand(r)
          [] comingCommand = "DECRBY" -> decrbyCommand(r)
          [] comingCommand = "EXPIRE" -> expireCommand(r)
          [] comingCommand = "TTL" -> ttlCommand(r)
          [] comingCommand = "PERSIST" -> persistCommand(r)
          [] comingCommand = "KEYS" -> keysCommand(r)
          [] comingCommand = "ECHO" -> echoCommand(r)
          [] comingCommand = "MSET" -> msetCommand(r)
          [] comingCommand = "SELECT" -> selectCommand(r)
          [] comingCommand = "SAVE" -> saveCommand(r)
          [] comingCommand = "LOAD" -> loadCommand(r)
          [] comingCommand = "FLUSHDB" -> flushdbCommand(r)
          [] comingCommand = "FLUSHALL" -> flushallCommand(r)
          [] OTHER -> Finish(r, returnError("Unknown command '" \o comingCommand \o "'"))

\* -------------------------------------------------------------- actions
Init ==
    /\ StringKeys = [d \in DBIds |-> EmptyMap]
    /\ ExpireKeys = [d \in DBIds |-> EmptyMap]
    /\ selectedDB = 0
    /\ sweepers = [d \in DBIds |-> IF d = 0 THEN 1 ELSE 0]
    /\ lastSelect = 0
    /\ files = [f \in FileNames |->
                  CASE f = "bad.db" -> [NoFile EXCEPT !.kind = "garbage"]
                    [] f = "cut.db" -> [NoFile EXCEPT !.kind = "damaged", !.S = [k \in {"a"} |-> "z"]]
                    [] OTHER -> NoFile]
    /\ wire = [c \in Clients |-> NoWire]
    /\ now = 0
    /\ conn = [c \in Clients |-> IdleConn]
    /\ pre = [c \in Clients |-> NoPre]
    /\ nops = [c \in Clients |-> 0]

RECURSIVE SumOps(_, _)
SumOps(f, S) ==
    IF S = {} THEN 0
    ELSE LET c == CHOOSE x \in S : TRUE IN f[c] + SumOps(f, S \ {c})

\* handleRequest: connection c's goroutine decodes `request` and calls its handler
\* A dispatch that, unlike the code, runs every command on engine 0.
Dispatch_onEngineZero(c, request) ==
    /\ conn[c].pc = "idle"
    /\ conn' = [conn EXCEPT ![c] = handleRequest(request, 0)]
    /\ pre' = [pre EXCEPT ![c] = [S |-> StringKeys[selectedDB],
                                  E |-> ExpireKeys[selectedDB], t |-> now,
                                  sel |-> selectedDB, SS |-> StringKeys,
                                  EE |-> ExpireKeys, sw |-> sweepers, last |-> << >>]]
    /\ nops' = [nops EXCEPT ![c] = @ + 1]
    /\ UNCHANGED <<StringKeys, ExpireKeys, selectedDB, sweepers, lastSelect, files, wire, now>>

Dispatch(c, request) ==
    /\ conn[c].pc = "idle"
    /\ conn' = [conn EXCEPT ![c] = handleRequest(request, selectedDB)]
    /\ pre' = [pre EXCEPT ![c] = [S |-> StringKeys[selectedDB],
                                  E |-> ExpireKeys[selectedDB], t |-> now,
                                  sel |-> selectedDB, SS |-> StringKeys,
                                  EE |-> ExpireKeys, sw |-> sweepers, last |-> << >>]]
    /\ nops' = [nops EXCEPT ![c] = @ + 1]
    /\ UNCHANGED <<StringKeys, ExpireKeys, selectedDB, sweepers, lastSelect, files, wire, now>>

\* An unrecovered panic in any goroutine ends the process: nothing runs after it.
Alive == \A c \in Clients : conn[c].pc # "panic"

\* handleRequest on the bytes of one transmission: DecodeRESP; on an error
\* (io.EOF or any other) the handler returns and the deferred conn.Close()
\* closes the connection; otherwise value.Array()[0], which is an index out of
\* range when the value is no array or an array of no elements; otherwise the
\* command of the map runs on value.StringArray()[1:].
Receive(c, stream) ==
    LET d == DecodeRESP(stream)
    IN  /\ conn[c].pc = "idle"
        /\ wire' = [wire EXCEPT ![c] = [sent |-> NoValue, stream |-> stream, st |-> d.st,
                                        value |-> d.value, rest |-> d.rest]]
        /\ conn' = [conn EXCEPT ![c] =
                      CASE d.st = "err" -> [IdleConn EXCEPT !.pc = "closed"]
                        [] d.st = "panic" -> Panic(IdleConn)
                        [] Len(ValueArray(d.value)) = 0 -> Panic(IdleConn)
                        [] OTHER -> handleRequest(StringArray(d.value), selectedDB)]
        /\ pre' = [pre EXCEPT ![c] = [S |-> StringKeys[selectedDB],
                                      E |-> ExpireKeys[selectedDB], t |-> now,
                                      sel |-> selectedDB, SS |-> StringKeys,
                                      EE |-> ExpireKeys, sw |-> sweepers, last |-> << >>]]
        /\ nops' = [nops EXCEPT ![c] = @ + 1]
        /\ UNCHANGED <<StringKeys, ExpireKeys, selectedDB, sweepers, lastSelect, files, now>>

\* The peer of connection c decodes the bytes a reply encoder made of v.
EncodeDecode(c, v) ==
    LET d == DecodeRESP(Encode(v))
    IN  /\ wire' = [wire EXCEPT ![c] = [sent |-> v, stream |-> Encode(v), st |-> d.st,
                                        value |-> d.value, rest |-> d.rest]]
        /\ UNCHANGED <<StringKeys, ExpireKeys, selectedDB, sweepers, lastSelect, files, now,
                       conn, pre, nops>>

\* DecodeRESP on bytes that connection c received.
Decode(c, stream) ==
    LET d == DecodeRESP(stream)
    IN  /\ wire' = [wire EXCEPT ![c] = [sent |-> NoValue, stream |-> stream, st |-> d.st,
                                        value |-> d.value, rest |-> d.rest]]
        /\ UNCHANGED <<StringKeys, ExpireKeys, selectedDB, sweepers, lastSelect, files, now,
                       conn, pre, nops>>

\* handleRequest: conn.Write(response), then the loop decodes the next request
WriteReply(c) ==
    /\ conn[c].pc = "done"
    /\ conn' = [conn EXCEPT ![c] = IdleConn]
    /\ pre' = [pre EXCEPT ![c] = NoPre]
    /\ UNCHANGED <<StringKeys, ExpireKeys, selectedDB, sweepers, lastSelect, files, wire, now, nops>>

\* handleRequest: conn.Write(response), and DecodeRESP finds the next request
\* already in the buffer (the client pipelined it): the handler of `request`
\* is called with no step of any other goroutine in between.
Pipelined(c, request) ==
    /\ conn[c].pc = "done"
    /\ conn' = [conn EXCEPT ![c] = handleRequest(request, selectedDB)]
    /\ pre' = [pre EXCEPT ![c] = [S |-> StringKeys[selectedDB],
                                  E |-> ExpireKeys[selectedDB], t |-> now,
                                  sel |-> selectedDB, SS |-> StringKeys,
                                  EE |-> ExpireKeys, sw |-> sweepers,
                                  last |-> [name |-> conn[c].name, args |-> conn[c].args,
                                            E |-> pre[c].E, t |-> pre[c].t]]]
    /\ nops' = [nops EXCEPT ![c] = @ + 1]
    /\ UNCHANGED <<StringKeys, ExpireKeys, selectedDB, sweepers, lastSelect, files, wire, now>>

\* Get: RLock; storage, ok := StringKeys[key]; RUnlock; if !ok return ""
Get_read(c) ==
    LET r == conn[c] IN
    /\ r.pc = "Get"
    /\ conn' = [conn EXCEPT ![c] =
                  IF MapHas(StringKeys[r.db], r.key)
                  THEN checkAndRemoveExpiredKey(
                           [r EXCEPT !.gstorage = StringKeys[r.db][r.key],
                                     !.gheld = (MapHas(ExpireKeys[r.db], r.key)
                                                   => ExpireKeys[r.db][r.key] >= now)],
                           r.key, "Get.chk")
                  ELSE Return(r, "")]
    /\ UNCHANGED <<StringKeys, ExpireKeys, selectedDB, sweepers, lastSelect, files, wire, now, pre, nops>>

\* checkAndRemoveExpiredKey: RLock; expire, ok := ExpireKeys[key]; RUnlock;
\* if !ok return false
checkAndRemoveExpiredKey_read(c) ==
    LET r == conn[c] IN
    /\ r.pc = "Chk"
    /\ conn' = [conn EXCEPT ![c] =
                  IF MapHas(ExpireKeys[r.db], r.key)
                  THEN [r EXCEPT !.expire = ExpireKeys[r.db][r.key], !.pc = "ChkNow"]
                  ELSE Return(r, FALSE)]
    /\ UNCHANGED <<StringKeys, ExpireKeys, selectedDB, sweepers, lastSelect, files, wire, now, pre, nops>>

\* checkAndRemoveExpiredKey: if time.Now().After(expire) { Lock; delete both;
\* Unlock; return true }; return false
checkAndRemoveExpiredKey_purge(c) ==
    LET r == conn[c] IN
    /\ r.pc = "ChkNow"
    /\ IF now > r.expire
       THEN /\ StringKeys' = [StringKeys EXCEPT ![r.db] = MapDelete(@, r.key)]
            /\ ExpireKeys' = [ExpireKeys EXCEPT ![r.db] = MapDelete(@, r.key)]
            /\ conn' = [conn EXCEPT ![c] = Return(r, TRUE)]
       ELSE /\ conn' = [conn EXCEPT ![c] = Return(r, FALSE)]
            /\ UNCHANGED <<StringKeys, ExpireKeys>>
    /\ UNCHANGED <<selectedDB, sweepers, lastSelect, files, wire, now, pre, nops>>

\* A Set that, unlike the code, also drops the expiry of the key.
Set_write_droppingExpiry(c) ==
    LET r == conn[c] IN
    /\ r.pc = "Set"
    /\ StringKeys' = [StringKeys EXCEPT ![r.db] = MapSet(@, r.key, r.value)]
    /\ ExpireKeys' = [ExpireKeys EXCEPT ![r.db] = MapDelete(@, r.key)]
    /\ conn' = [conn EXCEPT ![c] = Return(r, TRUE)]
    /\ UNCHANGED <<selectedDB, sweepers, lastSelect, files, wire, now, pre, nops>>

\* Set: Lock; StringKeys[key] = value; Unlock
Set_write(c) ==
    LET r == conn[c] IN
    /\ r.pc = "Set"
    /\ StringKeys' = [StringKeys EXCEPT ![r.db] = MapSet(@, r.key, r.value)]
    /\ conn' = [conn EXCEPT ![c] = Return(r, TRUE)]
    /\ UNCHANGED <<ExpireKeys, selectedDB, sweepers, lastSelect, files, wire, now, pre, nops>>

\* Del: Lock; delete(StringKeys, key); Unlock; numberOfKeysDeleted++
Del_delete(c) ==
    LET r == conn[c] IN
    /\ r.pc = "Del"
    /\ StringKeys' = [StringKeys EXCEPT ![r.db] = MapDelete(@, r.key)]
    /\ conn' = [conn EXCEPT ![c] = DelLoop([r EXCEPT !.n = @ + 1, !.i = @ + 1])]
    /\ UNCHANGED <<ExpireKeys, selectedDB, sweepers, lastSelect, files, wire, now, pre, nops>>

\* GetSet: if storage == "" { db.StringKeys[key] = value; return "" }, a write
\* of the map outside the lock
GetSet_write(c) ==
    LET r == conn[c] IN
    /\ r.pc = "GetSet"
    /\ StringKeys' = [StringKeys EXCEPT ![r.db] = MapSet(@, r.key, r.value)]
    /\ conn' = [conn EXCEPT ![c] = Return(r, "")]
    /\ UNCHANGED <<ExpireKeys, selectedDB, sweepers, lastSelect, files, wire, now, pre, nops>>

\* A Setpx that, unlike the code, keeps an expiry the key already has.
Setpx_expire_keepingEarlier(c) ==
    LET r == conn[c] IN
    /\ r.pc = "Setpx"
    /\ ExpireKeys' = [ExpireKeys EXCEPT ![r.db] =
                         IF MapHas(@, r.key) THEN @ ELSE MapSet(@, r.key, now + r.ms)]
    /\ conn' = [conn EXCEPT ![c] = Return([r EXCEPT !.tnow = now], TRUE)]
    /\ UNCHANGED <<StringKeys, selectedDB, sweepers, lastSelect, files, wire, now, pre, nops>>

\* Setpx: Lock; ExpireKeys[key] = time.Now().Add(milliseconds); Unlock
Setpx_expire(c) ==
    LET r == conn[c] IN
    /\ r.pc = "Setpx"
    /\ ExpireKeys' = [ExpireKeys EXCEPT ![r.db] = MapSet(@, r.key, now + r.ms)]
    /\ conn' = [conn EXCEPT ![c] = Return([r EXCEPT !.tnow = now], TRUE)]
    /\ UNCHANGED <<StringKeys, selectedDB, sweepers, lastSelect, files, wire, now, pre, nops>>

\* GetExpire: RLock; expire, ok := ExpireKeys[key]; RUnlock;
\* if !ok return time.Time{}
GetExpire_read(c) ==
    LET r == conn[c] IN
    /\ r.pc = "GetExpire"
    /\ conn' = [conn EXCEPT ![c] =
                  IF MapHas(ExpireKeys[r.db], r.key)
                  THEN Return(r, TimeAt(ExpireKeys[r.db][r.key]))
                  ELSE Return(r, ZeroTime)]
    /\ UNCHANGED <<StringKeys, ExpireKeys, selectedDB, sweepers, lastSelect, files, wire, now, pre, nops>>

\* Expire: Lock; ExpireKeys[key] = time.Now().Add(time.Second * seconds); Unlock
Expire_write(c) ==
    LET r == conn[c] IN
    /\ r.pc = "Expire"
    /\ ExpireKeys' = [ExpireKeys EXCEPT ![r.db] = MapSet(@, r.key, now + r.ms)]
    /\ conn' = [conn EXCEPT ![c] = Return([r EXCEPT !.tnow = now], TRUE)]
    /\ UNCHANGED <<StringKeys, selectedDB, sweepers, lastSelect, files, wire, now, pre, nops>>

\* TTL: return int(time.Until(expire).Seconds())
TTL_until(c) ==
    LET r == conn[c] IN
    /\ r.pc = "TTL"
    /\ conn' = [conn EXCEPT ![c] = Return([r EXCEPT !.tnow = now], Seconds(r.expire - now))]
    /\ UNCHANGED <<StringKeys, ExpireKeys, selectedDB, sweepers, lastSelect, files, wire, now, pre, nops>>

\* Persist: Lock; delete(ExpireKeys, key); Unlock
Persist_delete(c) ==
    LET r == conn[c] IN
    /\ r.pc = "Persist"
    /\ ExpireKeys' = [ExpireKeys EXCEPT ![r.db] = MapDelete(@, r.key)]
    /\ conn' = [conn EXCEPT ![c] = Return(r, TRUE)]
    /\ UNCHANGED <<StringKeys, selectedDB, sweepers, lastSelect, files, wire, now, pre, nops>>

\* Keys: RLock; for key := range StringKeys { if match { append } }; RUnlock
Keys_scan(c) ==
    LET r == conn[c]
        found == {k \in DOMAIN StringKeys[r.db] : Match(r.value, k)}
    IN  /\ r.pc = "Keys"
        /\ \E keys \in Orders(found) : conn' = [conn EXCEPT ![c] = Return(r, keys)]
        /\ UNCHANGED <<StringKeys, ExpireKeys, selectedDB, sweepers, lastSelect, files, wire, now, pre, nops>>

\* The keys a sweep at instant t removes: time.Now().After(expireTime)
ExpiredKeys(E, t) == {k \in DOMAIN E : t > E[k]}

\* A sweep that, unlike the code, deletes the expired keys from the value map
\* only.
Sweep_valuesOnly(d) ==
    LET gone == ExpiredKeys(ExpireKeys[d], now)
    IN  /\ StringKeys' = [StringKeys EXCEPT ![d] = [k \in (DOMAIN @) \ gone |-> @[k]]]
        /\ UNCHANGED ExpireKeys

\* A sweep that, unlike the code, also deletes the keys whose expiry is the
\* present instant (!expireTime.After(time.Now())).
Sweep_atOrBefore(d) ==
    LET gone == {k \in DOMAIN ExpireKeys[d] : now >= ExpireKeys[d][k]}
    IN  /\ StringKeys' = [StringKeys EXCEPT ![d] = [k \in (DOMAIN @) \ gone |-> @[k]]]
        /\ ExpireKeys' = [ExpireKeys EXCEPT ![d] = [k \in (DOMAIN @) \ gone |-> @[k]]]

\* Database.checkAndRemoveExpiredKeys on databases[d]:
\* Lock; delete every expired key from both maps; Unlock
Sweep(d) ==
    LET gone == ExpiredKeys(ExpireKeys[d], now)
    IN  /\ StringKeys' = [StringKeys EXCEPT ![d] = [k \in (DOMAIN @) \ gone |-> @[k]]]
        /\ ExpireKeys' = [ExpireKeys EXCEPT ![d] = [k \in (DOMAIN @) \ gone |-> @[k]]]

\* Save: Lock; os.Create the dump file of the engine; gob-encode both maps
\* into it; Unlock
Save_encode(c) ==
    LET r == conn[c] IN
    /\ r.pc = "Save"
    /\ files' = [files EXCEPT ![DumpName(r.db)] =
                    [kind |-> "image", S |-> StringKeys[r.db], E |-> ExpireKeys[r.db]]]
    /\ conn' = [conn EXCEPT ![c] = Return(r, TRUE)]
    /\ UNCHANGED <<StringKeys, ExpireKeys, selectedDB, sweepers, lastSelect, wire, now, pre, nops>>

\* Save when os.Create fails: the error is logged, Save returns
Save_createFails(c) ==
    LET r == conn[c] IN
    /\ r.pc = "Save"
    /\ conn' = [conn EXCEPT ![c] = Return(r, TRUE)]
    /\ UNCHANGED <<StringKeys, ExpireKeys, selectedDB, sweepers, lastSelect, files, wire, now, pre, nops>>

\* Save when encoder.Encode fails to write: os.Create has truncated the file,
\* the error is logged, Save returns
Save_writeFails(c) ==
    LET r == conn[c] IN
    /\ r.pc = "Save"
    /\ files' = [files EXCEPT ![DumpName(r.db)] = [NoFile EXCEPT !.kind = "garbage"]]
    /\ conn' = [conn EXCEPT ![c] = Return(r, TRUE)]
    /\ UNCHANGED <<StringKeys, ExpireKeys, selectedDB, sweepers, lastSelect, wire, now, pre, nops>>

\* The file Load opens: the dump file of the engine for the name "".
LoadedFile(r) ==
    LET fileName == IF r.value = "" THEN DumpName(r.db) ELSE r.value
    IN  IF fileName \in FileNames THEN files[fileName] ELSE NoFile

\* Load: Lock; os.Open; decoder.Decode(db); Unlock.  A file that is missing
\* or holds no gob stream changes nothing; an image is decoded into the two
\* maps of the engine; a damaged image is decoded into them up to the damage,
\* where Decode returns its error.
Load_decode(c) ==
    LET r == conn[c]
        file == LoadedFile(r)
    IN  /\ r.pc = "Load"
        /\ IF file.kind \in {"image", "damaged"}
           THEN /\ StringKeys' = [StringKeys EXCEPT ![r.db] = GobDecodeInto(@, file.S)]
                /\ ExpireKeys' = [ExpireKeys EXCEPT ![r.db] = GobDecodeInto(@, file.E)]
           ELSE UNCHANGED <<StringKeys, ExpireKeys>>
        /\ conn' = [conn EXCEPT ![c] = Return(r, TRUE)]
        /\ UNCHANGED <<selectedDB, sweepers, lastSelect, files, wire, now, pre, nops>>

\* Load when the file is there but reading it fails: the error is logged,
\* Load returns
Load_readFails(c) ==
    LET r == conn[c] IN
    /\ r.pc = "Load"
    /\ LoadedFile(r).kind # "none"
    /\ conn' = [conn EXCEPT ![c] = Return(r, TRUE)]
    /\ UNCHANGED <<StringKeys, ExpireKeys, selectedDB, sweepers, lastSelect, files, wire, now, pre, nops>>

\* A Flush that, unlike the code, leaves the expiry map alone.
Flush_clear_valuesOnly(c) ==
    LET r == conn[c] IN
    /\ r.pc = "Flush"
    /\ StringKeys' = [StringKeys EXCEPT ![r.i] = EmptyMap]
    /\ conn' = [conn EXCEPT ![c] = Return(r, TRUE)]
    /\ UNCHANGED <<ExpireKeys, selectedDB, sweepers, lastSelect, files, wire, now, pre, nops>>

\* Flush: Lock; StringKeys = make(..); ExpireKeys = make(..); Unlock
Flush_clear(c) ==
    LET r == conn[c] IN
    /\ r.pc = "Flush"
    /\ StringKeys' = [StringKeys EXCEPT ![r.i] = EmptyMap]
    /\ ExpireKeys' = [ExpireKeys EXCEPT ![r.i] = EmptyMap]
    /\ conn' = [conn EXCEPT ![c] = Return(r, TRUE)]
    /\ UNCHANGED <<selectedDB, sweepers, lastSelect, files, wire, now, pre, nops>>

\* A stop that, unlike the code, does not wait for a sweeper to receive it (a
\* send on a buffered channel).
SelectDB_stop_withoutHandshake(c) ==
    LET r == conn[c] IN
    /\ r.pc = "SelectDB.stop"
    /\ conn' = [conn EXCEPT ![c] = [r EXCEPT !.pc = "SelectDB.write"]]
    /\ UNCHANGED <<StringKeys, ExpireKeys, selectedDB, sweepers, lastSelect, files, wire, now,
                   pre, nops>>

\* SelectDB, Close -> StopExpireChecker: db.stopSignal <- true, a send on an
\* unbuffered channel that a sweeper goroutine of that engine receives
\* (case <-db.stopSignal: ticker.Stop(); return)
SelectDB_stop(c) ==
    LET r == conn[c] IN
    /\ r.pc = "SelectDB.stop"
    /\ sweepers[r.db] > 0
    /\ sweepers' = [sweepers EXCEPT ![r.db] = @ - 1]
    /\ conn' = [conn EXCEPT ![c] = [r EXCEPT !.pc = "SelectDB.write"]]
    /\ UNCHANGED <<StringKeys, ExpireKeys, selectedDB, lastSelect, files, wire, now, pre, nops>>

\* A SelectDB that, unlike the code, keeps the index to its own connection.
SelectDB_write_keepingIndex(c) ==
    LET r == conn[c] IN
    /\ r.pc = "SelectDB.write"
    /\ conn' = [conn EXCEPT ![c] = [r EXCEPT !.pc = "StartDB.sweep"]]
    /\ UNCHANGED <<StringKeys, ExpireKeys, selectedDB, sweepers, lastSelect, files, wire, now, pre, nops>>

\* SelectDB: mu.Lock; server.selectedDB = index; mu.Unlock
SelectDB_write(c) ==
    LET r == conn[c] IN
    /\ r.pc = "SelectDB.write"
    /\ selectedDB' = r.i
    /\ conn' = [conn EXCEPT ![c] = [r EXCEPT !.pc = "StartDB.sweep"]]
    /\ UNCHANGED <<StringKeys, ExpireKeys, sweepers, lastSelect, files, wire, now, pre, nops>>

\* StartDB: server.databases[server.selectedDB].checkAndRemoveExpiredKeys()
StartDB_sweep(c) ==
    LET r == conn[c] IN
    /\ r.pc = "StartDB.sweep"
    /\ Sweep(selectedDB)
    /\ conn' = [conn EXCEPT ![c] = [r EXCEPT !.pc = "StartDB.init"]]
    /\ UNCHANGED <<selectedDB, sweepers, lastSelect, files, wire, now, pre, nops>>

\* StartDB: server.databases[server.selectedDB].Init("") starts a sweeper
\* goroutine of that engine (startExpireChecker); SelectDB returns
StartDB_init(c) ==
    LET r == conn[c] IN
    /\ r.pc = "StartDB.init"
    /\ sweepers' = [sweepers EXCEPT ![selectedDB] = @ + 1]
    /\ lastSelect' = r.i
    /\ conn' = [conn EXCEPT ![c] = Return(r, TRUE)]
    /\ UNCHANGED <<StringKeys, ExpireKeys, selectedDB, files, wire, now, pre, nops>>

\* one tick (case <-ticker.C) of a running sweeper goroutine
checkAndRemoveExpiredKeys ==
    \E d \in DBIds :
        /\ sweepers[d] > 0
        /\ Sweep(d)
        /\ UNCHANGED <<selectedDB, sweepers, lastSelect, files, wire, now, conn, pre, nops>>

\* The steps that read or write the value map of their engine: Get's read,
\* Set's write, GetSet's write, Del's delete and Keys's scan.
ValueMapSteps == {"Get", "Set", "GetSet", "Del", "Keys"}

\* GetSet: db.StringKeys[key] = value is outside the lock, so the step of
\* another goroutine on the same map can run at the same time.  The Go
\* run time then either lets the write through (GetSet_write) or ends the
\* process with "fatal error: concurrent map writes" or "concurrent map read
\* and map write".
GetSet_fatal(c) ==
    LET r == conn[c] IN
    /\ r.pc = "GetSet"
    /\ \E o \in Clients \ {c} : conn[o].db = r.db /\ conn[o].pc \in ValueMapSteps
    /\ conn' = [conn EXCEPT ![c] = Panic(r)]
    /\ UNCHANGED <<StringKeys, ExpireKeys, selectedDB, sweepers, lastSelect, files, wire, now,
                   pre, nops>>

\* the wall clock advances
Tick ==
    /\ now + TickMs <= MaxTime
    /\ now' = now + TickMs
    /\ UNCHANGED <<StringKeys, ExpireKeys, selectedDB, sweepers, lastSelect, files, wire, conn, pre, nops>>

\* the wall clock of ExpSpec advances
ExpTick ==
    /\ now + TickMs <= MaxExpTime
    /\ now' = now + TickMs
    /\ UNCHANGED <<StringKeys, ExpireKeys, selectedDB, sweepers, lastSelect, files, wire, conn, pre, nops>>

\* ------------------------------------------------------- specifications
\* connection c sends one of `requests`, at most `bound` over all of Clients
Send(c, requests, bound) ==
    \E request \in requests :
        SumOps(nops, Clients) < bound /\ Dispatch(c, request)

\* Spec: two connections run SET, SET .. PX/EX and GET concurrently with each
\* other, with the sweeper of the selected database and with the clock.
Requests ==
    { <<"SET", "a", "7">>, <<"SET", "a", "5", "PX", "500">>,
      <<"SET", "b", "x", "EX", "1">>, <<"GET", "a">> }

Next ==
    \/ \E c \in Clients : Send(c, Requests, MaxOps)
    \/ \E c \in Clients : Get_read(c)
    \/ \E c \in Clients : checkAndRemoveExpiredKey_read(c)
    \/ \E c \in Clients : checkAndRemoveExpiredKey_purge(c)
    \/ \E c \in Clients : Set_write(c)
    \/ \E c \in Clients : Setpx_expire(c)
    \/ \E c \in Clients : WriteReply(c)
    \/ checkAndRemoveExpiredKeys
    \/ Tick

Spec == Init /\ [][Next]_vars

\* RaceSpec: two connections run the check-then-act commands concurrently
\* (no key has an expiry, so neither the clock nor the sweeper acts).
RaceRequests ==
    { <<"SET", "a", "5">>, <<"INCR", "a">>,
      <<"GETSET", "a", "x">>, <<"GETSET", "a", "y">>,
      <<"MSETNX", "a", "x", "b", "x">>, <<"MSETNX", "b", "y", "a", "y">> }

RaceNext ==
    \/ Alive /\ \E c \in Clients : Send(c, RaceRequests, MaxOps)
    \/ Alive /\ \E c \in Clients : Get_read(c)
    \/ Alive /\ \E c \in Clients : checkAndRemoveExpiredKey_read(c)
    \/ Alive /\ \E c \in Clients : Set_write(c)
    \/ Alive /\ \E c \in Clients : GetSet_write(c)
    \/ Alive /\ \E c \in Clients : GetSet_fatal(c)
    \/ Alive /\ \E c \in Clients : WriteReply(c)

RaceSpec == Init /\ [][RaceNext]_vars

\* PersistSpec: connection c1 runs SET .. PX and PERSIST while connection c2
\* runs GET, the sweeper ticks and the clock advances.
PersistRequests == { <<"SET", "a", "5", "PX", "500">>, <<"PERSIST", "a">> }

ReadRequests == { <<"GET", "a">> }

PersistNext ==
    \/ Send("c1", PersistRequests, MaxOps)
    \/ Send("c2", ReadRequests, MaxOps)
    \/ \E c \in Clients : Get_read(c)
    \/ \E c \in Clients : checkAndRemoveExpiredKey_read(c)
    \/ \E c \in Clients : checkAndRemoveExpiredKey_purge(c)
    \/ \E c \in Clients : Set_write(c)
    \/ \E c \in Clients : Setpx_expire(c)
    \/ \E c \in Clients : GetExpire_read(c)
    \/ \E c \in Clients : Persist_delete(c)
    \/ \E c \in Clients : WriteReply(c)
    \/ checkAndRemoveExpiredKeys
    \/ Tick

PersistSpec == Init /\ [][PersistNext]_vars

\* KeysSpec: one connection runs SET, SET .. PX and KEYS one after the other;
\* the clock advances at any time, the sweeper ticks only between two commands.
KeysRequests ==
    { <<"SET", "a1", "x">>, <<"SET", "a2", "x", "PX", "500">>, <<"SET", "b1", "x">>,
      <<"KEYS", "a*">>, <<"KEYS", "*">>, <<"KEYS", "?1">> }

KeysNext ==
    \/ Send("c1", KeysRequests, MaxKeysOps)
    \/ Set_write("c1")
    \/ Setpx_expire("c1")
    \/ Keys_scan("c1")
    \/ WriteReply("c1")
    \/ (conn["c1"].pc = "idle" /\ checkAndRemoveExpiredKeys)
    \/ Tick

KeysSpec == Init /\ [][KeysNext]_vars

\* ExpSpec: one connection runs SET, EXPIRE, TTL, PERSIST and GET one after
\* the other; the clock advances at any time, the sweeper ticks only between
\* two commands.
ExpRequests ==
    { <<"SET", "a", "x">>, <<"SET", "a", "">>, <<"SET", "a", "", "EX", "1">>,
      <<"EXPIRE", "a", "1">>, <<"EXPIRE", "a", "2">>, <<"EXPIRE", "b", "1">>,
      <<"TTL", "a">>, <<"PERSIST", "a">>, <<"GET", "a">> }

ExpNext ==
    \/ Send("c1", ExpRequests, MaxExpOps)
    \/ Get_read("c1")
    \/ checkAndRemoveExpiredKey_read("c1")
    \/ checkAndRemoveExpiredKey_purge("c1")
    \/ Set_write("c1")
    \/ Setpx_expire("c1")
    \/ GetExpire_read("c1")
    \/ Expire_write("c1")
    \/ TTL_until("c1")
    \/ Persist_delete("c1")
    \/ WriteReply("c1")
    \/ (conn["c1"].pc = "idle" /\ checkAndRemoveExpiredKeys)
    \/ ExpTick

ExpSpec == Init /\ [][ExpNext]_vars

\* the connection of SeqSpec
SeqConn == "c1"

\* the requests the connection of SeqSpec sends
SeqRequests ==
    { <<"SET", "a", "">>, <<"SET", "a", "5">>, <<"SET", "a", "x">>, <<"SET", "b", "x">>,
      <<"set", "a", "5", "px", "500">>, <<"SET", "a", "x", "EX", "1">>,
      <<"SETEX", "a", "1", "y">>, <<"SET", "b", "5", "PX", "0">>,
      <<"GET", "a">>, <<"GET", "b">>, <<"GETSET", "a", "y">>, <<"GETDEL", "a">>,
      <<"MSETNX", "a", "y", "b", "y">>, <<"MSETNX", "b", "7">>,
      <<"DEL", "a">>, <<"DEL", "a", "b">>, <<"DEL", "b", "b">>,
      <<"INCR", "a">>, <<"INCRBY", "a", "9">>, <<"DECR", "a">>, <<"DECRBY", "b", "2">> }

\* SeqSpec: one connection runs its commands one after the other; the clock
\* advances at any time, the sweeper ticks only between two commands.
SeqNext ==
    \/ Send(SeqConn, SeqRequests, MaxSeqOps)
    \/ Get_read(SeqConn)
    \/ checkAndRemoveExpiredKey_read(SeqConn)
    \/ checkAndRemoveExpiredKey_purge(SeqConn)
    \/ Set_write(SeqConn)
    \/ Del_delete(SeqConn)
    \/ GetSet_write(SeqConn)
    \/ Setpx_expire(SeqConn)
    \/ WriteReply(SeqConn)
    \/ (conn[SeqConn].pc = "idle" /\ checkAndRemoveExpiredKeys)
    \/ Tick

SeqSpec == Init /\ [][SeqNext]_vars

\* SelSpec: one connection switches between engines 0 and 1 and runs SET,
\* SET .. PX, GET and DEL in them one after the other; the clock advances at
\* any time, the sweeper of a running engine ticks only between two commands.
SelRequests ==
    { <<"SELECT", "0">>, <<"SELECT", "1">>, <<"SET", "x", "v">>,
      <<"SET", "x", "w", "PX", "500">>, <<"GET", "x">>, <<"DEL", "x">> }

SelNext ==
    \/ Send(SeqConn, SelRequests, MaxSelOps)
    \/ Get_read(SeqConn)
    \/ checkAndRemoveExpiredKey_read(SeqConn)
    \/ checkAndRemoveExpiredKey_purge(SeqConn)
    \/ Set_write(SeqConn)
    \/ Setpx_expire(SeqConn)
    \/ Del_delete(SeqConn)
    \/ SelectDB_stop(SeqConn)
    \/ SelectDB_write(SeqConn)
    \/ StartDB_sweep(SeqConn)
    \/ StartDB_init(SeqConn)
    \/ WriteReply(SeqConn)
    \/ (conn[SeqConn].pc = "idle" /\ checkAndRemoveExpiredKeys)
    \/ Tick

SelSpec == Init /\ [][SelNext]_vars

\* AdminSpec: one connection runs SELECT with valid and invalid arguments,
\* SET, SET .. PX, FLUSHDB and FLUSHALL one after the other; the clock
\* advances at any time, a running sweeper ticks only between two commands.
AdminRequests ==
    { <<"SELECT", "1">>, <<"SELECT", "15">>, <<"SELECT", "16">>, <<"SELECT", "-1">>,
      <<"SELECT", "abc">>, <<"SELECT">>, <<"SELECT", "1", "2">>,
      <<"SET", "y", "w">>, <<"SET", "x", "v", "PX", "500">>,
      <<"FLUSHDB">>, <<"FLUSHALL">> }

AdminNext ==
    \/ Send(SeqConn, AdminRequests, MaxAdminOps)
    \/ Set_write(SeqConn)
    \/ Setpx_expire(SeqConn)
    \/ Flush_clear(SeqConn)
    \/ SelectDB_stop(SeqConn)
    \/ SelectDB_write(SeqConn)
    \/ StartDB_sweep(SeqConn)
    \/ StartDB_init(SeqConn)
    \/ WriteReply(SeqConn)
    \/ (conn[SeqConn].pc = "idle" /\ checkAndRemoveExpiredKeys)
    \/ Tick

AdminSpec == Init /\ [][AdminNext]_vars

\* AritySpec: one connection runs commands with too few arguments, and SET,
\* SET .. PX, MSET and ECHO with enough of them, one after the other; the
\* clock advances at any time, the sweeper ticks only between two commands.
ArityRequests ==
    { <<"ECHO">>, <<"ECHO", "hi">>, <<"SET", "a">>, <<"SET", "a", "x">>,
      <<"SET", "a", "x", "EX">>, <<"SET", "a", "x", "PX">>,
      <<"SET", "a", "x", "PX", "500">>, <<"SETEX", "a", "1">>, <<"GET">>,
      <<"GETSET", "a">>, <<"GETDEL">>, <<"MSET", "a">>, <<"MSET", "a", "x", "b">>,
      <<"MSET", "a", "y", "b", "y">>, <<"MSETNX", "a">>, <<"MSETNX", "a", "x", "b">>,
      <<"DEL">>, <<"INCR">>, <<"INCRBY", "a">>, <<"DECR">>, <<"DECRBY", "a">>,
      <<"EXPIRE", "a">>, <<"TTL">>, <<"PERSIST">>, <<"KEYS">>, <<"SELECT">> }

ArityNext ==
    \/ Send(SeqConn, ArityRequests, MaxArityOps)
    \/ Set_write(SeqConn)
    \/ Setpx_expire(SeqConn)
    \/ WriteReply(SeqConn)
    \/ (conn[SeqConn].pc = "idle" /\ checkAndRemoveExpiredKeys)
    \/ Tick

AritySpec == Init /\ [][ArityNext]_vars

\* WireSpec: two connections send well-formed and malformed transmissions;
\* the process runs until a goroutine panics.
WireStreams ==
    { "*2\r\n$3\r\nGET\r\n$1\r\na\r\n", "*3\r\n$3\r\nSET\r\n$1\r\na\r\n$1\r\nx\r\n",
      "*1\r\n$4\r\nPING\r\n", "*1\r\n$3\r\nGET\r\n", "*1\r\n$4\r\nECHO\r\n",
      "+PING\r\n", "*0\r\n", "$-1\r\n", "*2\r\n$3\r\nGET\r\n$-2\r\n",
      "$4\r\nabc\r\n", "?x\r\n", "" }

WireNext ==
    \/ Alive /\ \E c \in Clients : \E stream \in WireStreams :
                    SumOps(nops, Clients) < MaxWireOps /\ Receive(c, stream)
    \/ Alive /\ \E c \in Clients : Get_read(c)
    \/ Alive /\ \E c \in Clients : checkAndRemoveExpiredKey_read(c)
    \/ Alive /\ \E c \in Clients : Set_write(c)
    \/ Alive /\ \E c \in Clients : WriteReply(c)

WireSpec == Init /\ [][WireNext]_vars

\* SnapSpec: one connection runs SAVE, LOAD, SET, SET .. PX and FLUSHDB one
\* after the other; opening, writing and reading a file can fail; the clock
\* advances at any time, the sweeper ticks only between two commands.
SnapRequests ==
    { <<"SAVE">>, <<"SAVE", "none.db">>, <<"LOAD">>, <<"LOAD", "database_0_dump.db">>,
      <<"LOAD", "cut.db">>, <<"LOAD", "bad.db">>, <<"LOAD", "none.db">>,
      <<"SET", "a", "x">>, <<"SET", "b", "y", "PX", "500">>, <<"FLUSHDB">> }

SnapNext ==
    \/ Send(SeqConn, SnapRequests, MaxSnapOps)
    \/ Set_write(SeqConn)
    \/ Setpx_expire(SeqConn)
    \/ Flush_clear(SeqConn)
    \/ Save_encode(SeqConn)
    \/ Save_createFails(SeqConn)
    \/ Save_writeFails(SeqConn)
    \/ Load_decode(SeqConn)
    \/ Load_readFails(SeqConn)
    \/ WriteReply(SeqConn)
    \/ (conn[SeqConn].pc = "idle" /\ checkAndRemoveExpiredKeys)
    \/ Tick

SnapSpec == Init /\ [][SnapNext]_vars

\* RestoreSpec: one connection runs SAVE, LOAD of the dump file, SET,
\* SET .. PX and FLUSHDB one after the other, and every file operation
\* succeeds; the clock advances at any time, the sweeper ticks only between
\* two commands.
RestoreRequests ==
    { <<"SAVE">>, <<"LOAD", "database_0_dump.db">>, <<"SET", "a", "x">>,
      <<"SET", "b", "y", "PX", "500">>, <<"SET", "b", "w">>, <<"FLUSHDB">> }

RestoreNext ==
    \/ Send(SeqConn, RestoreRequests, MaxRestoreOps)
    \/ Set_write(SeqConn)
    \/ Setpx_expire(SeqConn)
    \/ Flush_clear(SeqConn)
    \/ Save_encode(SeqConn)
    \/ Load_decode(SeqConn)
    \/ WriteReply(SeqConn)
    \/ (conn[SeqConn].pc = "idle" /\ checkAndRemoveExpiredKeys)
    \/ Tick

RestoreSpec == Init /\ [][RestoreNext]_vars

\* LiveSpec: engine 0 stays selected; one connection runs SET and SET .. PX /
\* EX and never reads; the clock advances and the sweeper ticks at any time,
\* also in the middle of a command.  The ticker of startExpireChecker fires
\* every second for as long as the goroutine runs, so a sweep that has
\* something to remove is not put off for ever.
LiveRequests ==
    { <<"SET", "a", "7">>, <<"SET", "a", "5", "PX", "500">>, <<"SET", "b", "x", "EX", "1">> }

LiveNext ==
    \/ Send(SeqConn, LiveRequests, MaxLiveOps)
    \/ Set_write(SeqConn)
    \/ Setpx_expire(SeqConn)
    \/ WriteReply(SeqConn)
    \/ checkAndRemoveExpiredKeys
    \/ Tick

LiveSpec == Init /\ [][LiveNext]_vars /\ WF_vars(checkAndRemoveExpiredKeys)

\* CodecSpec: the codec alone.  Values of each kind are encoded by the reply
\* encoders and decoded again, and '$' units with every kind of declared
\* length and payload are decoded.
MaxInteger == 12

CodecStrings == {"", "a", "OK", "GET"}

CodecValues ==
    {[NoValue EXCEPT !.typ = SimpleString, !.bytes = b] : b \in CodecStrings}
    \cup {[NoValue EXCEPT !.typ = ":", !.bytes = Itoa(n)] : n \in (0 - 2) .. MaxInteger}
    \cup {[NoValue EXCEPT !.typ = BulkString, !.bytes = b] : b \in CodecStrings}
    \cup {[NoValue EXCEPT !.typ = Array, !.array = a] :
             a \in { << >> }
                \cup {<<[NoValue EXCEPT !.typ = BulkString, !.bytes = b]>> : b \in CodecStrings}
                \cup {<<[NoValue EXCEPT !.typ = BulkString, !.bytes = b],
                         [NoValue EXCEPT !.typ = BulkString, !.bytes = "x"]>> :
                         b \in CodecStrings}}

\* the declared lengths and the bytes after the length line
BulkLengths == {"0", "2", "4", "-1", "-2", "-3", "x", ""}

BulkPayloads == {"", "a", "\r\n", "ab\r\n", "abc\r\n", "abcd\r\n", "ab\r\n+OK\r\n"}

BulkUnit(length, payload) == "$" \o length \o "\r\n" \o payload

CodecNext ==
    \/ \E c \in Clients : \E v \in CodecValues : EncodeDecode(c, v)
    \/ \E c \in Clients : \E length \in BulkLengths : \E payload \in BulkPayloads :
          Decode(c, BulkUnit(length, payload))

CodecSpec == Init /\ [][CodecNext]_vars

\* LazySpec: connection c1 runs SET .. PX with two values while connection c2
\* runs GET, the sweeper ticks and the clock advances.
LazyRequests == { <<"SET", "a", "5", "PX", "500">>, <<"SET", "a", "7", "PX", "500">> }

LazyNext ==
    \/ Send("c1", LazyRequests, MaxLazyOps)
    \/ Send("c2", ReadRequests, MaxLazyOps)
    \/ \E c \in Clients : Get_read(c)
    \/ \E c \in Clients : checkAndRemoveExpiredKey_read(c)
    \/ \E c \in Clients : checkAndRemoveExpiredKey_purge(c)
    \/ \E c \in Clients : Set_write(c)
    \/ \E c \in Clients : Setpx_expire(c)
    \/ \E c \in Clients : WriteReply(c)
    \/ checkAndRemoveExpiredKeys
    \/ Tick

LazySpec == Init /\ [][LazyNext]_vars

\* StaleSpec: one connection sends SET .. PX, SET and GET on one key, the
\* next request either after the reply or pipelined behind the previous one;
\* the clock advances at any time, the sweeper ticks only between two commands.
StaleRequests == { <<"SET", "a", "5", "PX", "500">>, <<"SET", "a", "7">>, <<"GET", "a">> }

StaleNext ==
    \/ Send(SeqConn, StaleRequests, MaxStaleOps)
    \/ \E request \in StaleRequests :
           SumOps(nops, Clients) < MaxStaleOps /\ Pipelined(SeqConn, request)
    \/ Get_read(SeqConn)
    \/ checkAndRemoveExpiredKey_read(SeqConn)
    \/ checkAndRemoveExpiredKey_purge(SeqConn)
    \/ Set_write(SeqConn)
    \/ Setpx_expire(SeqConn)
    \/ WriteReply(SeqConn)
    \/ (conn[SeqConn].pc = "idle" /\ checkAndRemoveExpiredKeys)
    \/ Tick

StaleSpec == Init /\ [][StaleNext]_vars

\* SelLiveSpec: two connections send SELECT 0 and SELECT 1 concurrently.  Each
\* goroutine that can take its next step does take it, and a stop that a
\* sweeper is ready to receive again and again is received.
SelLiveRequests == { <<"SELECT", "0">>, <<"SELECT", "1">> }

SelLiveNext ==
    \/ \E c \in Clients : Send(c, SelLiveRequests, MaxSelLiveOps)
    \/ \E c \in Clients : SelectDB_stop(c)
    \/ \E c \in Clients : SelectDB_write(c)
    \/ \E c \in Clients : StartDB_sweep(c)
    \/ \E c \in Clients : StartDB_init(c)
    \/ \E c \in Clients : WriteReply(c)

SelLiveSpec ==
    /\ Init /\ [][SelLiveNext]_vars
    /\ \A c \in Clients :
          /\ SF_vars(SelectDB_stop(c))
          /\ WF_vars(SelectDB_write(c))
          /\ WF_vars(StartDB_sweep(c))
          /\ WF_vars(StartDB_init(c))
          /\ WF_vars(WriteReply(c))

\* Sel2Spec: two connections switch between engines 0, 1 and 2 and run SET
\* and GET concurrently, while the running sweepers tick.
Sel2Requests ==
    { <<"SELECT", "0">>, <<"SELECT", "1">>, <<"SELECT", "2">>,
      <<"SET", "x", "v">>, <<"GET", "x">> }

Sel2Next ==
    \/ \E c \in Clients : Send(c, Sel2Requests, MaxSel2Ops)
    \/ \E c \in Clients : Get_read(c)
    \/ \E c \in Clients : checkAndRemoveExpiredKey_read(c)
    \/ \E c \in Clients : Set_write(c)
    \/ \E c \in Clients : SelectDB_stop(c)
    \/ \E c \in Clients : SelectDB_write(c)
    \/ \E c \in Clients : StartDB_sweep(c)
    \/ \E c \in Clients : StartDB_init(c)
    \/ \E c \in Clients : WriteReply(c)
    \/ checkAndRemoveExpiredKeys

Sel2Spec == Init /\ [][Sel2Next]_vars


\* --------------------------------------------------------------- claims
\* Connection c has finished the command `name` and has not yet written the reply.
Done(c, name) == conn[c].pc = "done" /\ conn[c].name = name

\* No connection but c has sent a command.
Alone(c) == \A o \in Clients \ {c} : nops[o] = 0

\* In the snapshot p (value map S, expiry map E, clock t) key k is set and
\* its expiry, if it has one, lies after t.
HeldAt(p, k) == MapHas(p.S, k) /\ (MapHas(p.E, k) => p.E[k] > p.t)

\* In the snapshot p key k was never set, or its expiry lies before t.
GoneAt(p, k) == ~MapHas(p.S, k) \/ (MapHas(p.E, k) /\ p.E[k] < p.t)

\* The keys of the pairs k1 v1 k2 v2 ..
PairKeys(args) == {args[2 * i - 1] : i \in 1 .. (Len(args) \div 2)}

\* C1: a GET of a key that was never set, or whose expiry instant had passed
\* when the command was sent, replies the null bulk string and leaves the key
\* in neither map, whether or not the sweeper ticks; no other connection has
\* sent anything.  (The instant equal to the expiry is left out of the
\* statement: the code's time.Now().After is strict there.)
C1_GetAbsentWhenUnsetOrExpired ==
    \A c \in Clients :
        LET r == conn[c]
            k == r.args[1]
        IN  (Done(c, "GET") /\ Alone(c) /\ GoneAt(pre[c], k))
                => /\ r.reply = returnNullBulkString
                   /\ ~MapHas(StringKeys[r.db], k)
                   /\ ~MapHas(ExpireKeys[r.db], k)

\* C2: when two connections have both run INCR k, both sent while k held the
\* decimal integer n without an expiry, k holds n + 2 and the two replies are
\* n + 1 and n + 2.
C2_ConcurrentIncrLosesNothing ==
    \A c1, c2 \in Clients :
        LET r1 == conn[c1]
            r2 == conn[c2]
            k == r1.args[1]
            n == AtoiVal(pre[c1].S[k])
        IN  (/\ c1 # c2 /\ Done(c1, "INCR") /\ Done(c2, "INCR")
             /\ r2.args = r1.args /\ r2.db = r1.db
             /\ pre[c1].S = pre[c2].S /\ MapHas(pre[c1].S, k)
             /\ ~AtoiErr(pre[c1].S[k])
             /\ ~MapHas(pre[c1].E, k) /\ ~MapHas(pre[c2].E, k))
                => /\ MapHas(StringKeys[r1.db], k)
                   /\ StringKeys[r1.db][k] = Itoa(n + 2)
                   /\ {r1.reply, r2.reply} = {returnInteger(n + 1), returnInteger(n + 2)}

\* C3: when two connections have both run MSETNX on key lists that share a
\* key, both sent while none of the keys of either list was set, at most one
\* of them replies 1, and no pair of a call that replied 0 is installed.
C3_MSetNXAtMostOneWins ==
    \A c1, c2 \in Clients :
        LET r1 == conn[c1]
            r2 == conn[c2]
            keys == PairKeys(r1.args) \cup PairKeys(r2.args)
        IN  (/\ c1 # c2 /\ Done(c1, "MSETNX") /\ Done(c2, "MSETNX")
             /\ r1.db = r2.db
             /\ PairKeys(r1.args) \cap PairKeys(r2.args) # {}
             /\ \A k \in keys : ~MapHas(pre[c1].S, k) /\ ~MapHas(pre[c2].S, k))
                => /\ ~(r1.reply = returnInteger(1) /\ r2.reply = returnInteger(1))
                   /\ r1.reply = returnInteger(0) =>
                         \A i \in 1 .. (Len(r1.args) \div 2) :
                             (/\ MapHas(StringKeys[r1.db], r1.args[2 * i - 1])
                              /\ StringKeys[r1.db][r1.args[2 * i - 1]] = r1.args[2 * i])
                                 => /\ r2.reply = returnInteger(1)
                                    /\ \E j \in 1 .. (Len(r2.args) \div 2) :
                                          /\ r2.args[2 * j - 1] = r1.args[2 * i - 1]
                                          /\ r2.args[2 * j] = r1.args[2 * i]

\* C5: when two connections have both run GETSET on the same key, both sent
\* while the key held the value v0, they do not both reply v0: one of them
\* replies the value the other installed.
C5_GetSetAtomic ==
    \A c1, c2 \in Clients :
        LET r1 == conn[c1]
            r2 == conn[c2]
            k == r1.args[1]
        IN  (/\ c1 # c2 /\ Done(c1, "GETSET") /\ Done(c2, "GETSET")
             /\ r2.args[1] = k /\ r2.db = r1.db
             /\ pre[c1].S = pre[c2].S /\ HeldAt(pre[c1], k) /\ HeldAt(pre[c2], k)
             /\ pre[c1].S[k] # "")
                => /\ ~(/\ r1.reply = returnBulkString(pre[c1].S[k])
                        /\ r2.reply = returnBulkString(pre[c1].S[k]))
                   /\ \/ r1.reply = returnBulkString(r2.args[2])
                      \/ r2.reply = returnBulkString(r1.args[2])


\* The clock has not advanced since connection c's command was sent.
Quiet(c) == pre[c].t = now

\* Every key of the set is decided in the snapshot p: set and unexpired, or
\* unset or expired.
Decided(p, keys) == \A k \in keys : HeldAt(p, k) \/ GoneAt(p, k)

\* C4: a finished MSETNX, run alone with the clock standing still, has
\* replied 0 and installed or changed no key if one of its keys was set and
\* unexpired when it was sent (a purge of expired keys is allowed), and
\* otherwise has replied 1 and installed every pair.
C4_MSetNXAllOrNothing ==
    LET r == conn[SeqConn]
        p == pre[SeqConn]
        S == StringKeys[r.db]
        E == ExpireKeys[r.db]
        keys == PairKeys(r.args)
    IN  (Done(SeqConn, "MSETNX") /\ Quiet(SeqConn) /\ Decided(p, keys))
            => IF \E k \in keys : HeldAt(p, k)
               THEN /\ r.reply = returnInteger(0)
                    /\ DOMAIN S \subseteq DOMAIN p.S
                    /\ DOMAIN E \subseteq DOMAIN p.E
                    /\ \A k \in DOMAIN S : S[k] = p.S[k]
                    /\ \A k \in DOMAIN E : E[k] = p.E[k]
                    /\ \A k \in DOMAIN p.S : HeldAt(p, k) => MapHas(S, k)
               ELSE /\ r.reply = returnInteger(1)
                    /\ \A i \in 1 .. (Len(r.args) \div 2) :
                          /\ MapHas(S, r.args[2 * i - 1])
                          /\ S[r.args[2 * i - 1]] = r.args[2 * i]

\* C6: a finished GETDEL k, run alone with the clock standing still, has
\* replied the value of k and left k in neither the value map nor the expiry
\* map if k held a non-empty value and was unexpired when it was sent, and has
\* replied the null bulk string if k was unset or expired.
C6_GetDelRemovesValueAndExpiry ==
    LET r == conn[SeqConn]
        p == pre[SeqConn]
        k == r.args[1]
    IN  (Done(SeqConn, "GETDEL") /\ Quiet(SeqConn))
            => /\ (HeldAt(p, k) /\ p.S[k] # "")
                      => /\ r.reply = returnBulkString(p.S[k])
                         /\ ~MapHas(StringKeys[r.db], k)
                         /\ ~MapHas(ExpireKeys[r.db], k)
               /\ GoneAt(p, k) => r.reply = returnNullBulkString

\* C7: a finished DEL k1 .. kn, run alone with the clock standing still, has
\* replied the number of distinct given keys that were set and unexpired when
\* it was sent; none of the given keys is in the value map any more, and every
\* other key has the value it had.
C7_DelCountsPresentKeys ==
    LET r == conn[SeqConn]
        p == pre[SeqConn]
        S == StringKeys[r.db]
        keys == {r.args[i] : i \in 1 .. Len(r.args)}
    IN  (Done(SeqConn, "DEL") /\ Quiet(SeqConn) /\ Decided(p, keys))
            => /\ r.reply = returnInteger(Cardinality({k \in keys : HeldAt(p, k)}))
               /\ \A k \in keys : ~MapHas(S, k)
               /\ \A k \in (DOMAIN p.S) \ keys : MapHas(S, k) /\ S[k] = p.S[k]


\* C8: every Set step writes the value of its key, leaves every expiry entry
\* as it is (that of its own key included, when the key has an unexpired
\* expiry E), and changes the value of no other key of any database.
C8_SetKeepsExpiry ==
    [][\A c \in Clients :
          Set_write(c) =>
              LET r == conn[c] IN
              /\ MapHas(StringKeys'[r.db], r.key)
              /\ StringKeys'[r.db][r.key] = r.value
              /\ (MapHas(ExpireKeys[r.db], r.key) /\ ExpireKeys[r.db][r.key] > now)
                     => /\ MapHas(ExpireKeys'[r.db], r.key)
                        /\ ExpireKeys'[r.db][r.key] = ExpireKeys[r.db][r.key]
              /\ \A d \in DBIds :
                    /\ DOMAIN ExpireKeys'[d] = DOMAIN ExpireKeys[d]
                    /\ \A k \in DOMAIN ExpireKeys[d] : ExpireKeys'[d][k] = ExpireKeys[d][k]
                    /\ DOMAIN StringKeys'[d] =
                           (DOMAIN StringKeys[d]) \cup (IF d = r.db THEN {r.key} ELSE {})
                    /\ \A k \in DOMAIN StringKeys[d] :
                           (d # r.db \/ k # r.key) => StringKeys'[d][k] = StringKeys[d][k]
      ]_vars

\* A SET k v has finished on a key that had an unexpired expiry and another
\* value when it was sent: k holds v, its expiry is still the one it had and
\* still ahead, and another key has a value and an expiry of its own.
C8_Witness ==
    \E c \in Clients :
        LET r == conn[c]
            k == r.args[1]
        IN  /\ Done(c, "SET") /\ Len(r.args) = 2
            /\ HeldAt(pre[c], k) /\ MapHas(pre[c].E, k) /\ pre[c].S[k] # r.args[2]
            /\ MapHas(StringKeys[r.db], k) /\ StringKeys[r.db][k] = r.args[2]
            /\ MapHas(ExpireKeys[r.db], k) /\ ExpireKeys[r.db][k] = pre[c].E[k]
            /\ ExpireKeys[r.db][k] > now
            /\ \E k2 \in (DOMAIN ExpireKeys[r.db]) \ {k} : MapHas(StringKeys[r.db], k2)

\* The request of r is SET k v PX ms, SET k v EX s or SETEX k s v.
SetsExpiry(r) ==
    \/ r.name = "SETEX" /\ Len(r.args) = 3 /\ ~AtoiErr(r.args[2])
    \/ /\ r.name = "SET" /\ Len(r.args) = 4 /\ ~AtoiErr(r.args[4])
       /\ ToUpper(r.args[3]) \in {"PX", "EX"}

\* Its time to live in milliseconds: ms, 1000 * s, 1000 * s.
TtlMillis(r) ==
    IF r.name = "SETEX" THEN 1000 * AtoiVal(r.args[2])
    ELSE IF ToUpper(r.args[3]) = "PX" THEN AtoiVal(r.args[4])
    ELSE 1000 * AtoiVal(r.args[4])

\* Its value.
SetValue(r) == IF r.name = "SETEX" THEN r.args[3] ELSE r.args[2]

\* C9: a finished SET k v PX ms, SET k v EX s or SETEX k s v, run alone, has
\* replied OK, k holds v, and the expiry of k is the clock read during the
\* command plus ms, 1000 * s or 1000 * s, whatever expiry k had before.
C9_SetWithExpiry ==
    LET r == conn[SeqConn]
        k == r.args[1]
    IN  (r.pc = "done" /\ SetsExpiry(r))
            => /\ r.reply = "+OK\r\n"
               /\ MapHas(StringKeys[r.db], k)
               /\ StringKeys[r.db][k] = SetValue(r)
               /\ MapHas(ExpireKeys[r.db], k)
               /\ ExpireKeys[r.db][k] = r.tnow + TtlMillis(r)
               /\ pre[SeqConn].t <= r.tnow /\ r.tnow <= now

\* A SET k v EX s has finished on a key that had another expiry and another
\* value when it was sent.
C9_Witness ==
    LET r == conn[SeqConn]
        p == pre[SeqConn]
        k == r.args[1]
    IN  /\ Done(SeqConn, "SET") /\ SetsExpiry(r) /\ ToUpper(r.args[3]) = "EX"
        /\ MapHas(p.S, k) /\ p.S[k] # r.args[2]
        /\ MapHas(p.E, k) /\ p.E[k] # r.tnow + 1000 * AtoiVal(r.args[4])
        /\ ExpireKeys[r.db][k] = r.tnow + 1000 * AtoiVal(r.args[4])
        /\ StringKeys[r.db][k] = r.args[2]

\* The request of r is INCR k, DECR k, INCRBY k d or DECRBY k d.
IntUpdate(r) ==
    \/ r.name \in {"INCR", "DECR"} /\ Len(r.args) = 1
    \/ r.name \in {"INCRBY", "DECRBY"} /\ Len(r.args) = 2 /\ ~AtoiErr(r.args[2])

\* Its signed delta.
SignedDelta(r) ==
    CASE r.name = "INCR" -> 1
      [] r.name = "DECR" -> -1
      [] r.name = "INCRBY" -> AtoiVal(r.args[2])
      [] r.name = "DECRBY" -> -AtoiVal(r.args[2])

\* C10: a finished INCR, DECR, INCRBY or DECRBY of key k with signed delta d,
\* run alone: if k was unset or expired when it was sent, the reply is d and k
\* holds the decimal text of d; if k held the decimal integer n, unexpired,
\* the reply is n + d, k holds the decimal text of n + d and the expiry of k
\* is as it was (or, the clock having passed the expiry meanwhile, the reply
\* is d and k holds the decimal text of d).
C10_IntUpdate ==
    LET r == conn[SeqConn]
        p == pre[SeqConn]
        S == StringKeys[r.db]
        E == ExpireKeys[r.db]
        k == r.args[1]
        d == SignedDelta(r)
        n == AtoiVal(p.S[k])
        fresh == /\ r.reply = returnInteger(d)
                 /\ MapHas(S, k) /\ S[k] = Itoa(d)
    IN  (r.pc = "done" /\ IntUpdate(r))
            => /\ GoneAt(p, k) => fresh
               /\ (HeldAt(p, k) /\ ~AtoiErr(p.S[k]))
                      => \/ /\ r.reply = returnInteger(n + d)
                            /\ MapHas(S, k) /\ S[k] = Itoa(n + d)
                            /\ MapHas(E, k) = MapHas(p.E, k)
                            /\ MapHas(E, k) => E[k] = p.E[k]
                         \/ /\ MapHas(p.E, k) /\ p.E[k] < now
                            /\ fresh


\* C11: a finished INCR, DECR, INCRBY or DECRBY of a key that held, unexpired,
\* a non-empty value that is not a decimal integer (run alone, the clock
\* standing still) has replied something other than an Integer, so that the
\* client can tell the failure from a computed result such as 0.
C11_NonIntegerIsAnError ==
    LET r == conn[SeqConn]
        p == pre[SeqConn]
        k == r.args[1]
    IN  (/\ r.pc = "done" /\ IntUpdate(r) /\ Quiet(SeqConn)
         /\ HeldAt(p, k) /\ p.S[k] # "" /\ AtoiErr(p.S[k]))
            => SubSeq(r.reply, 1, 1) # ":"


\* The maps S, E of an engine hold nothing that the maps of the snapshot p did
\* not hold, and still hold every key that was set and unexpired in p: the
\* only change is the removal of keys that p shows expired.  (Neither map
\* need have changed at all.)
OnlyPurged(p, S, E) ==
    /\ DOMAIN S \subseteq DOMAIN p.S
    /\ DOMAIN E \subseteq DOMAIN p.E
    /\ \A k \in DOMAIN S : S[k] = p.S[k]
    /\ \A k \in DOMAIN E : E[k] = p.E[k]
    /\ \A k \in DOMAIN p.S : HeldAt(p, k) => MapHas(S, k)
    /\ \A k \in DOMAIN p.E : HeldAt(p, k) => MapHas(E, k)

\* C12: a finished EXPIRE k s, run alone with the clock standing still, has
\* replied 0 and changed neither map (but for the purge of expired keys) if k
\* was unset or expired when it was sent; if k was set and unexpired it has
\* replied 1, the expiry of k is the clock read during the command plus
\* 1000 * s milliseconds, whatever it was before, and the value of k is as it
\* was.
C12_ExpireInstallsExpiry ==
    LET r == conn["c1"]
        p == pre["c1"]
        S == StringKeys[r.db]
        E == ExpireKeys[r.db]
        k == r.args[1]
    IN  (Done("c1", "EXPIRE") /\ Len(r.args) = 2 /\ ~AtoiErr(r.args[2]) /\ Quiet("c1"))
            => /\ GoneAt(p, k) => r.reply = returnInteger(0) /\ OnlyPurged(p, S, E)
               /\ HeldAt(p, k)
                     => /\ r.reply = returnInteger(1)
                        /\ MapHas(E, k) /\ E[k] = r.tnow + 1000 * AtoiVal(r.args[2])
                        /\ MapHas(S, k) /\ S[k] = p.S[k]

\* C13: a finished TTL k, run alone with the clock standing still, has
\* replied -2 if k was unset or expired when it was sent, -1 if k was set with
\* no expiry entry, and otherwise the whole seconds left until the expiry of k
\* (a number from 0 up, never -1 or -2).
C13_TtlSentinels ==
    LET r == conn["c1"]
        p == pre["c1"]
        k == r.args[1]
    IN  (Done("c1", "TTL") /\ Len(r.args) = 1 /\ Quiet("c1"))
            => /\ GoneAt(p, k) => r.reply = returnInteger(-2)
               /\ (HeldAt(p, k) /\ ~MapHas(p.E, k)) => r.reply = returnInteger(-1)
               /\ (HeldAt(p, k) /\ MapHas(p.E, k))
                     => \E v \in 0 .. (MaxExpTime \div 1000 + 2) :
                           /\ r.reply = returnInteger(v)
                           /\ 1000 * v <= p.E[k] - p.t
                           /\ p.E[k] - p.t < 1000 * (v + 1)


\* C14: while PERSIST k, sent by c1 when k held a non-empty value with an
\* expiry still ahead, has replied 1 and c1 has written nothing since, k holds
\* the value it had and has no expiry entry, whatever the clock, the sweeper
\* and the GETs of the other connection do.
C14_PersistKeepsKey ==
    LET r == conn["c1"]
        p == pre["c1"]
        k == r.args[1]
    IN  (/\ Done("c1", "PERSIST") /\ Len(r.args) = 1
         /\ HeldAt(p, k) /\ MapHas(p.E, k) /\ p.S[k] # ""
         /\ r.reply = returnInteger(1))
            => /\ MapHas(StringKeys[r.db], k)
               /\ StringKeys[r.db][k] = p.S[k]
               /\ ~MapHas(ExpireKeys[r.db], k)


\* C15: a finished KEYS pattern, run alone with the clock standing still, has
\* replied the array, in some order, of exactly the keys that matched the
\* pattern and were set and unexpired when it was sent; a key whose expiry
\* had passed, purged or not, is not in it.
C15_KeysSkipsExpired ==
    LET r == conn["c1"]
        p == pre["c1"]
        live == {k \in DOMAIN p.S : Match(r.args[1], k) /\ HeldAt(p, k)}
    IN  (/\ Done("c1", "KEYS") /\ Len(r.args) = 1 /\ Quiet("c1")
         /\ Decided(p, DOMAIN p.S))
            => \E keys \in Orders(live) : r.reply = returnArray(keys)


\* The commands that work on keys of one engine.
KeyCommands == {"SET", "GET", "DEL"}

\* C16: engines are isolated.  When the one connection has finished a command
\* on keys, sent while index i was selected, both maps of every other engine
\* are what they were when it was sent; a finished SET x v has stored v under x
\* in engine i; a finished GET x of a key that had no expiry has replied the
\* value engine i held for x, or absent if engine i held none, whatever the
\* other engines hold for x; and a finished SELECT j has made j the selected
\* index and has changed no value of any engine (it may only have purged keys
\* that have expired by now).  So after SELECT 1, SET x v, SELECT 0 a GET x is absent,
\* and after a further SELECT 1 it is v again.
C16_DatabaseIsolation ==
    LET r == conn[SeqConn]
        p == pre[SeqConn]
    IN  /\ (r.pc = "done" /\ r.name \in KeyCommands) =>
               /\ selectedDB = p.sel
               /\ \A d \in DBIds \ {p.sel} :
                      StringKeys[d] = p.SS[d] /\ ExpireKeys[d] = p.EE[d]
        /\ Done(SeqConn, "SET") =>
               /\ MapHas(StringKeys[p.sel], r.args[1])
               /\ StringKeys[p.sel][r.args[1]] = r.args[2]
        /\ (Done(SeqConn, "GET") /\ ~MapHas(p.E, r.args[1])) =>
               r.reply = IF MapHas(p.SS[p.sel], r.args[1])
                         THEN returnBulkString(p.SS[p.sel][r.args[1]])
                         ELSE returnNullBulkString
        /\ Done(SeqConn, "SELECT") =>
               /\ r.reply = returnSimpleString("OK")
               /\ selectedDB = AtoiVal(r.args[1])
               /\ \A d \in DBIds :
                      OnlyPurged([S |-> p.SS[d], E |-> p.EE[d], t |-> now],
                                 StringKeys[d], ExpireKeys[d])

\* The last step of the scenario: engine 0 never held x (or holds another
\* value), engine 1 holds v, index 1 is selected again after the connection
\* has been in engine 0, and GET x has replied v.
C16_Witness ==
    /\ Done(SeqConn, "GET")
    /\ nops[SeqConn] = MaxSelOps
    /\ selectedDB = 1 /\ lastSelect = 1
    /\ sweepers[0] = 0 /\ sweepers[1] = 1
    /\ ~MapHas(StringKeys[0], "x")
    /\ MapHas(StringKeys[1], "x")
    /\ conn[SeqConn].reply = returnBulkString("v")


\* Connection c is inside RedisServer.SelectDB.
InSelectDB(c) ==
    conn[c].pc \in {"SelectDB.stop", "SelectDB.write", "StartDB.sweep", "StartDB.init"}

\* C17: the selected index is one value for the whole server.  Whenever a
\* connection dispatches a command while no SELECT is running, the command
\* works on the engine of the SELECT that completed last, whichever connection
\* sent that SELECT (engine 0 before the first): its SET stores the value in
\* that engine and in no other, and its GET replies what that engine holds.
C17_SelectedIndexIsServerWide ==
    [][\A c \in Clients :
         LET r == conn[c]
             q == conn'[c]
         IN  /\ (r.pc = "idle" /\ q.pc # "idle" /\ \A o \in Clients : ~InSelectDB(o))
                    => q.db = lastSelect
             /\ (r.pc # "idle" /\ q.pc # "idle") => q.db = r.db
             /\ (r.pc = "Set" /\ q # r)
                    => StringKeys' = [StringKeys EXCEPT ![r.db] = MapSet(@, r.key, r.value)]
             /\ (r.pc # "done" /\ q.pc = "done" /\ q.name = "GET")
                    => q.reply = IF MapHas(StringKeys[r.db], r.key)
                                 THEN returnBulkString(StringKeys[r.db][r.key])
                                 ELSE returnNullBulkString]_vars

\* Connection c1 has completed SELECT 1, its only command; connection c2 has
\* then run SET x v and GET x, which replied v from engine 1.
C17_Witness ==
    /\ nops["c1"] = 1 /\ conn["c1"].pc = "idle" /\ lastSelect = 1
    /\ nops["c2"] = 2 /\ Done("c2", "GET") /\ conn["c2"].db = 1
    /\ conn["c2"].reply = returnBulkString("v")
    /\ ~MapHas(StringKeys[0], "x")

\* The decimal numerals of the indexes 0 .. 15.
IndexNumerals == {Itoa(i) : i \in DBIds}

\* C18: a finished SELECT whose one argument is the numeral of an index in
\* 0 .. 15 has replied OK and that index is selected; a finished SELECT with
\* any other argument list (not an integer, out of 0 .. 15, negative, no
\* argument, two arguments) has replied an Error and the selected index, the
\* running sweepers and both maps of every engine are what they were when it
\* was sent.  In every state the selected index is in 0 .. 15 and there are
\* exactly 16 engines.
C18_SelectValidatesIndex ==
    LET r == conn[SeqConn]
        p == pre[SeqConn]
        valid == Len(r.args) = 1 /\ r.args[1] \in IndexNumerals
    IN  /\ (Done(SeqConn, "SELECT") /\ valid) =>
               /\ r.reply = "+OK\r\n"
               /\ Itoa(selectedDB) = r.args[1]
        /\ (Done(SeqConn, "SELECT") /\ ~valid) =>
               /\ CharAt(r.reply, 1) = "-"
               /\ selectedDB = p.sel
               /\ sweepers = p.sw
               /\ StringKeys = p.SS /\ ExpireKeys = p.EE
        /\ selectedDB \in 0 .. 15
        /\ DOMAIN StringKeys = 0 .. 15
        /\ DOMAIN ExpireKeys = 0 .. 15

\* A SELECT with an invalid argument list has been refused while index 15 was
\* selected and its sweeper ran.
C18_Witness ==
    /\ Done(SeqConn, "SELECT")
    /\ conn[SeqConn].args \in {<<"abc">>, <<"16">>, <<"-1">>, << >>, <<"1", "2">>}
    /\ CharAt(conn[SeqConn].reply, 1) = "-"
    /\ selectedDB = 15 /\ sweepers[15] = 1 /\ sweepers[0] = 0

\* C19: a finished FLUSHDB has replied OK, both maps of the engine that was
\* selected when it was sent are empty and both maps of every other engine
\* are what they were; a finished FLUSHALL has replied OK and both maps of
\* all 16 engines are empty.  Neither changes the selected index.
C19_FlushEmptiesBothMaps ==
    LET r == conn[SeqConn]
        p == pre[SeqConn]
    IN  /\ Done(SeqConn, "FLUSHDB") =>
               /\ r.reply = "+OK\r\n"
               /\ StringKeys[p.sel] = EmptyMap /\ ExpireKeys[p.sel] = EmptyMap
               /\ \A d \in DBIds \ {p.sel} :
                      StringKeys[d] = p.SS[d] /\ ExpireKeys[d] = p.EE[d]
               /\ selectedDB = p.sel
        /\ Done(SeqConn, "FLUSHALL") =>
               /\ r.reply = "+OK\r\n"
               /\ \A d \in DBIds : StringKeys[d] = EmptyMap /\ ExpireKeys[d] = EmptyMap
               /\ selectedDB = p.sel

\* FLUSHDB has emptied engine 1, which held a value with an expiry, and left
\* the value and the expiry of engine 0 in place.
C19_Witness ==
    /\ Done(SeqConn, "FLUSHDB")
    /\ pre[SeqConn].sel = 1
    /\ MapHas(pre[SeqConn].S, "x") /\ MapHas(pre[SeqConn].E, "x")
    /\ StringKeys[1] = EmptyMap /\ ExpireKeys[1] = EmptyMap
    /\ MapHas(StringKeys[0], "x") /\ MapHas(ExpireKeys[0], "x")

\* The least number of arguments each command needs.
MinArgs(name) ==
    CASE name \in {"ECHO", "GET", "GETDEL", "DEL", "INCR", "DECR", "TTL", "PERSIST",
                   "KEYS", "SELECT"} -> 1
      [] name \in {"SET", "GETSET", "MSET", "MSETNX", "INCRBY", "DECRBY", "EXPIRE"} -> 2
      [] name = "SETEX" -> 3
      [] OTHER -> 0

\* The command `name` was sent with fewer arguments than it needs: fewer than
\* its minimum, SET k v EX or SET k v PX without the number, or MSET / MSETNX
\* with a list of odd length.
TooFew(name, args) ==
    \/ Len(args) < MinArgs(name)
    \/ name = "SET" /\ Len(args) = 3 /\ ToUpper(args[3]) \in {"EX", "PX"}
    \/ name \in {"MSET", "MSETNX"} /\ Len(args) % 2 = 1

\* C20: a command sent with fewer arguments than it needs ends with the reply
\* "-ERR wrong number of arguments for '<name>' command"; both maps of every
\* engine, the selected index and the running sweepers are what they were when
\* it was sent.
C20_TooFewArgumentsIsAnError ==
    LET r == conn[SeqConn]
        p == pre[SeqConn]
    IN  (r.pc \in {"done", "panic"} /\ TooFew(r.name, r.args)) =>
            /\ r.pc = "done"
            /\ r.reply = "-ERR wrong number of arguments for '" \o r.name \o "' command\r\n"
            /\ StringKeys = p.SS /\ ExpireKeys = p.EE
            /\ selectedDB = p.sel /\ sweepers = p.sw

\* C21: no goroutine of the server has panicked, whatever bytes the
\* connections have sent: every transmission ends in a reply or in the
\* closing of the connection that sent it.
C21_NoInputCrashesTheServer ==
    \A c \in Clients :
        /\ conn[c].pc # "panic"
        /\ (conn[c].pc = "done" /\ wire[c].stream = "*1\r\n$4\r\nECHO\r\n")
               => CharAt(conn[c].reply, 1) = "-"

\* The file a finished LOAD named.
NamedFile(r) == IF r.args[1] \in FileNames THEN files[r.args[1]] ELSE NoFile

\* C22: a finished LOAD of a file that holds the image of an engine, whatever
\* was done to the engine since the image was saved, has left the value map
\* and the expiry map of the selected engine equal to the maps of the image:
\* no key more, no key less, every value and expiry instant as saved.
C22_RestoreReplacesTheEngine ==
    LET r == conn[SeqConn]
        p == pre[SeqConn]
    IN  (Done(SeqConn, "LOAD") /\ Len(r.args) = 1 /\ NamedFile(r).kind = "image")
            => /\ StringKeys[p.sel] = NamedFile(r).S
               /\ ExpireKeys[p.sel] = NamedFile(r).E

\* C23: a finished SAVE has left both maps of every engine as they were,
\* whether the file was written or not; a finished LOAD of a file that is
\* missing, does not hold an image or holds a damaged one has left both maps
\* of every engine as they were.
C23_FailedSnapshotChangesNothing ==
    LET r == conn[SeqConn]
        p == pre[SeqConn]
    IN  /\ Done(SeqConn, "SAVE") => StringKeys = p.SS /\ ExpireKeys = p.EE
        /\ (Done(SeqConn, "LOAD") /\ Len(r.args) = 1 /\ NamedFile(r).kind # "image")
               => StringKeys = p.SS /\ ExpireKeys = p.EE

\* C24: a finished SAVE or LOAD, with or without a file name, whether the
\* file operation succeeded or not, has replied the status OK.
C24_SaveAndLoadReplyOK ==
    LET r == conn[SeqConn]
    IN  (Done(SeqConn, "SAVE") \/ Done(SeqConn, "LOAD")) => r.reply = "+OK\r\n"

\* Key k of engine 0 has an expiry and the expiry has passed.
Overdue(k) == MapHas(ExpireKeys[0], k) /\ now > ExpireKeys[0][k]

\* C25: engine 0 stays selected and its sweeper keeps ticking.  Whenever the
\* expiry of a key of engine 0 has passed, the key is later in neither the
\* value map nor the expiry map, although no client reads it (or a client has
\* meanwhile given it a new expiry that has not passed).
C25_SweeperRemovesOverdueKeys ==
    \A k \in {"a", "b"} :
        Overdue(k) ~> \/ ~MapHas(StringKeys[0], k) /\ ~MapHas(ExpireKeys[0], k)
                      \/ MapHas(ExpireKeys[0], k) /\ ~Overdue(k)

\* SET a 5 PX 500 was the only command; the clock has passed 500 and the
\* sweeper has removed a from both maps.
C25_Witness ==
    /\ nops[SeqConn] = 1 /\ conn[SeqConn].pc = "idle"
    /\ now > 500
    /\ ~MapHas(StringKeys[0], "a") /\ ~MapHas(ExpireKeys[0], "a")
    /\ StringKeys[0] = EmptyMap /\ sweepers[0] = 1 /\ selectedDB = 0

\* C26: the bytes a reply encoder made of a status, an integer, a bulk string
\* or an array of bulk strings decode without error to that same Value, and
\* nothing of them is left over.
C26_CodecRoundTrip ==
    \A c \in Clients :
        wire[c].sent # NoValue =>
            /\ wire[c].st = "ok"
            /\ wire[c].value = wire[c].sent
            /\ wire[c].rest = ""

\* The string is a decimal numeral without a sign.
IsNumeral(s) ==
    s # "" /\ \A i \in 1 .. Len(s) : CharAt(s, i) \in {CharAt(Digits, j) : j \in 1 .. 10}

\* C27: a decoded '$' unit with the declared length `length` and the bytes
\* `payload` after the length line has returned an error and no value if
\* length is no numeral or if payload has fewer than length + 2 bytes; else
\* it has returned the bulk string of the first `length` bytes of payload and
\* has left the stream after the length + 2 bytes of the unit.
C27_BulkStringDecoding ==
    \A c \in Clients : \A length \in BulkLengths : \A payload \in BulkPayloads :
        (wire[c].sent = NoValue /\ wire[c].stream = BulkUnit(length, payload)) =>
            IF ~IsNumeral(length) \/ Len(payload) < DigitsVal(length, 0) + 2
            THEN wire[c].st = "err" /\ wire[c].value = NoValue
            ELSE /\ wire[c].st = "ok"
                 /\ wire[c].value =
                        [NoValue EXCEPT !.typ = BulkString,
                                        !.bytes = SubSeq(payload, 1, DigitsVal(length, 0))]
                 /\ wire[c].rest = SubSeq(payload, DigitsVal(length, 0) + 3, Len(payload))

\* C28: a lazy purge removes a key only if the key's expiry has passed at
\* the instant of the removal.  Whenever a step of checkAndRemoveExpiredKey
\* takes a key out of the value map, the expiry map held, just before, an
\* expiry of that key that lies before the clock; so the purge of a Get that
\* saw an old expiry never deletes a value and an expiry that another
\* connection has installed since.
C28_LazyPurgeRemovesOnlyOverdueKeys ==
    [][\A c \in Clients :
         LET r == conn[c]
         IN  (/\ r.pc = "ChkNow"
              /\ conn'[c] # r
              /\ MapHas(StringKeys[r.db], r.key)
              /\ ~MapHas(StringKeys'[r.db], r.key))
                 => /\ MapHas(ExpireKeys[r.db], r.key)
                    /\ now > ExpireKeys[r.db][r.key]]_vars

\* C29: the value a GET replies was stored and unexpired at some instant of
\* the call.  At the step in which the Get of a GET (the third command at
\* most, so that its key was written once at most since Get read it) returns
\* the value it read, either the expiry of that value had not passed when Get
\* read it, or the key holds that value now with no expiry or one that has
\* not passed.
C29_GetReturnsALiveValue ==
    [][\A c \in Clients :
         LET r == conn[c]
             q == conn'[c]
         IN  (/\ r.pc \in {"Chk", "ChkNow"} /\ r.name = "GET"
              /\ q.pc = "done" /\ q.reply = returnBulkString(r.gstorage)
              /\ SumOps(nops, Clients) <= 3)
                 => \/ r.gheld
                    \/ /\ MapHas(StringKeys[r.db], r.key)
                       /\ StringKeys[r.db][r.key] = r.gstorage
                       /\ MapHas(ExpireKeys[r.db], r.key) => ExpireKeys[r.db][r.key] >= now]_vars

\* C30: SetWithExpiry is atomic with respect to the sweeper.  Once a SET k v
\* PX ms or SET k v EX s with a positive time to live has finished on the only
\* connection, and until the clock passes the clock read during the command
\* plus the time to live, k holds v and its expiry is that sum, whatever
\* entry k held before and whenever the sweeper ticked; in particular k has
\* no expiry without a value.
C30_SetWithExpiryIsAtomic ==
    LET r == conn[SeqConn]
        k == r.args[1]
    IN  (/\ r.pc = "done" /\ SetsExpiry(r) /\ TtlMillis(r) > 0
         /\ now <= r.tnow + TtlMillis(r))
            => /\ MapHas(StringKeys[r.db], k)
               /\ StringKeys[r.db][k] = SetValue(r)
               /\ MapHas(ExpireKeys[r.db], k)
               /\ ExpireKeys[r.db][k] = r.tnow + TtlMillis(r)

\* C31: a Set over an expired, unpurged entry is not lost to the stale expiry.
\* When GET k has finished after being pipelined behind a SET k v that was
\* sent while k held an expiry that had passed, and the clock read the same
\* at the dispatch of the SET, at the dispatch of the GET and in the GET,
\* the GET has replied v.
C31_SetOverStaleEntryIsVisible ==
    LET r == conn[SeqConn]
        p == pre[SeqConn]
        k == r.args[1]
    IN  (/\ Done(SeqConn, "GET") /\ p.last # << >>
         /\ p.last.name = "SET" /\ Len(p.last.args) = 2 /\ p.last.args[1] = k
         /\ MapHas(p.last.E, k) /\ p.last.E[k] < p.last.t
         /\ p.last.t = p.t /\ now = p.t)
            => r.reply = returnBulkString(p.last.args[2])

\* C32: no orphan expiry.  Whenever every connection is between two commands,
\* each key with an entry in an engine's expiry map has an entry in that
\* engine's value map.
C32_NoOrphanExpiry ==
    (\A c \in Clients : conn[c].pc = "idle")
        => \A d \in DBIds : \A k \in DOMAIN ExpireKeys[d] : MapHas(StringKeys[d], k)

\* C33: each engine has at most one running sweeper, and whenever no SELECT
\* is in progress on any connection the engines with a running sweeper are
\* exactly the selected engine.
C33_OneSweeperOnTheSelectedEngine ==
    /\ \A d \in DBIds : sweepers[d] <= 1
    /\ (\A c \in Clients : ~InSelectDB(c))
           => \A d \in DBIds : sweepers[d] > 0 <=> d = selectedDB

\* The SELECT of c2 was dispatched while the SELECT of c1 had stopped the
\* sweeper and not yet started the next one, both have completed, and the
\* selected engine is not engine 0.
C33_Witness ==
    /\ Done("c2", "SELECT") /\ conn["c2"].reply = "+OK\r\n"
    /\ \A d \in DBIds : pre["c2"].sw[d] = 0
    /\ \A c \in Clients : ~InSelectDB(c)
    /\ selectedDB # 0 /\ sweepers[selectedDB] = 1

\* C34: every Select returns.  A connection that is inside SelectDB is
\* eventually outside it, whatever SELECTs the other connection sends.
C34_SelectReturns ==
    \A c \in Clients : InSelectDB(c) ~> ~InSelectDB(c)

\* C35: a command never works on a half-selected engine.  When the Get of a
\* GET or the Set of a SET reads or writes the maps of the engine its
\* connection read as selected, and the command was dispatched while that
\* engine had no running sweeper, then no other connection is inside SelectDB
\* between its stop and its start, and the sweeper of that engine is running.
C35_DispatchSeesAppliedSelection ==
    [][\A c \in Clients :
         LET r == conn[c]
         IN  (/\ r.name \in {"GET", "SET"} /\ r.pc \in {"Get", "Set"}
              /\ conn'[c] # r
              /\ pre[c].sw[r.db] = 0)
                 => /\ sweepers[r.db] > 0
                    /\ \A o \in Clients \ {c} :
                          conn[o].pc \notin {"SelectDB.write", "StartDB.sweep", "StartDB.init"}]_vars

\* C36: every access of an engine's maps holds the engine's lock.  In no
\* state is one goroutine at a write of a value map that it makes without the
\* lock while another goroutine is at a read or write of the value map of the
\* same engine, and no goroutine has been ended by the run time's detection
\* of two such accesses.
C36_MapAccessesHoldTheLock ==
    \A c \in Clients :
        /\ conn[c].pc = "GetSet"
               => \A o \in Clients \ {c} :
                     ~(conn[o].db = conn[c].db /\ conn[o].pc \in ValueMapSteps)
        /\ conn[c].pc # "panic"

\* A step that leaves every goroutine and the clock alone is a sweeper tick.
SweeperTick == conn' = conn /\ now' = now

\* The step removes the keys `due` of engine d from both of its maps and
\* leaves every other entry of every engine as it was.
TickRemoves(d, due) ==
    /\ sweepers[d] > 0
    /\ \A k \in due : ~MapHas(StringKeys'[d], k) /\ ~MapHas(ExpireKeys'[d], k)
    /\ DOMAIN StringKeys'[d] = (DOMAIN StringKeys[d]) \ due
    /\ DOMAIN ExpireKeys'[d] = (DOMAIN ExpireKeys[d]) \ due
    /\ \A k \in DOMAIN StringKeys'[d] : StringKeys'[d][k] = StringKeys[d][k]
    /\ \A k \in DOMAIN ExpireKeys'[d] : ExpireKeys'[d][k] = ExpireKeys[d][k]
    /\ \A e \in DBIds \ {d} : StringKeys'[e] = StringKeys[e] /\ ExpireKeys'[e] = ExpireKeys[e]

=============================================================================
